---- MODULE Spec2Model ----
(***************************************************************************)
(* MapleTrade financial analysis agent                                     *)
(* (src/mapletrade/financial_analysis_agent/agent.py).                     *)
(*                                                                         *)
(* The model follows one client call at a time into the module's public    *)
(* functions: fetch_fmp_data_with_retry, calculate_financial_ratios and    *)
(* analyze_financial_health_score.  The providers (FMP over HTTP, Yahoo    *)
(* Finance through yfinance) are the environment: every answer they can    *)
(* give is a nondeterministic choice.                                      *)
(*                                                                         *)
(* Conventions.                                                            *)
(*  - A Python dict is a TLA+ function/record; the empty dict is the empty *)
(*    function.  "k in d" is  k \in DOMAIN d.                              *)
(*  - An optional number (None or a float) is a sequence of length <= 1:   *)
(*    <<>> is None, <<v>> is the number v.                                 *)
(*  - Ratios are fixed-point numbers in thousandths: 0.8 is 800, 35 is     *)
(*    35000, a return on equity of 4% given as the fraction 0.04 is 40.    *)
(***************************************************************************)
EXTENDS Integers, Sequences, FiniteSets, TLC

VARIABLES
    op,                 \* the public function the client called
    pc,                 \* position inside the running call
    endpoint,           \* fetch_fmp_data_with_retry: argument endpoint
    max_retries,        \* fetch_fmp_data_with_retry: argument max_retries
    attempt,            \* fetch_fmp_data_with_retry: loop variable
    resps,              \* answers the provider gave to the requests of this fetch
    sleeps,             \* time.sleep() delays of this fetch, in order
    fetch_ret,          \* value returned by fetch_fmp_data_with_retry
    fmp_ratios_ttm,     \* calculate_financial_ratios: local fmp_ratios_ttm
    fmp_ratios_annual,  \* calculate_financial_ratios: local fmp_ratios_annual
    result,             \* calculate_financial_ratios: local result
    yahoo,              \* what ticker.info did in this pass ("not_consulted" if never read)
    prov,               \* provider whose answer was assigned to each ratio category
    analysis,           \* value returned by calculate_financial_ratios
    health,             \* value returned by analyze_financial_health_score
    symbol,             \* perform_peer_comparison / generate_comprehensive_report: yahoo_symbol
    sector,             \* perform_peer_comparison: sector (argument, then local)
    primary_analysis,   \* perform_peer_comparison: local primary_analysis
    peers,              \* perform_peer_comparison: local peers
    peer_idx,           \* perform_peer_comparison: position of the loop over peers[:3]
    peer_data,          \* perform_peer_comparison: local peer_data
    peer_log,           \* peer fetches and rate-limiting sleeps, in order
    comparison,         \* value returned by perform_peer_comparison
    report              \* generate_comprehensive_report: local report, then its return value

vars == <<op, pc, endpoint, max_retries, attempt, resps, sleeps, fetch_ret,
          fmp_ratios_ttm, fmp_ratios_annual, result, yahoo, prov, analysis, health,
          symbol, sector, primary_analysis, peers, peer_idx, peer_data, peer_log,
          comparison, report>>

fetchVars == <<endpoint, max_retries, attempt, resps, sleeps, fetch_ret>>
passVars  == <<fmp_ratios_ttm, fmp_ratios_annual, result, yahoo, prov, analysis>>
peerVars  == <<symbol, sector, primary_analysis, peers, peer_idx, peer_data, peer_log,
               comparison>>

(***************************************************************************)
(* Bounds and program constants                                            *)
(***************************************************************************)
\* largest max_retries a direct caller of fetch_fmp_data_with_retry passes
MaxRetriesBound == 4

\* default of the max_retries parameter (used by calculate_financial_ratios)
DEFAULT_MAX_RETRIES == 3

(***************************************************************************)
(* Python values                                                           *)
(***************************************************************************)
None == <<>>
EmptyDict == [k \in {} |-> None]
NoValue == [pending |-> TRUE]          \* a local that has not been assigned yet

Get(d, k) == IF k \in DOMAIN d THEN d[k] ELSE None      \* dict.get(k)
Truthy(x) == x # None /\ x[1] # 0                       \* "if x:" for None/float

RECURSIVE Pow2(_)
Pow2(n) == IF n = 0 THEN 1 ELSE 2 * Pow2(n - 1)          \* 2 ** n

(***************************************************************************)
(* fetch_fmp_data_with_retry (agent.py:42-104)                             *)
(***************************************************************************)
\* What one requests.get / raise_for_status / response.json() round can do.
\*   network   requests.get raises a ConnectionError or Timeout
\*   http      raise_for_status raises an HTTPError
\*   badjson   response.json() raises a JSON decode error; which except clause
\*             catches it depends on the installed requests version
\*             (requests.exceptions.JSONDecodeError is a RequestException,
\*             json.JSONDecodeError is not)
\*   other     any other exception inside the try block
\*   empty     the body is JSON that is falsy ([] , {} or null)
\*   errobj    a JSON object with an "Error Message" field
\*   data      any other JSON body
FailureAnswers ==
    { [kind |-> "network"], [kind |-> "http"], [kind |-> "other"],
      [kind |-> "empty"], [kind |-> "errobj"],
      [kind |-> "badjson", exc |-> "requests.exceptions.JSONDecodeError"],
      [kind |-> "badjson", exc |-> "json.JSONDecodeError"] }

\* {"data": data, "source": "FMP", "timestamp": ...}
Success(data) == [data |-> data, source |-> "FMP", timestamp |-> "now"]

\* {"error": ..., "endpoint": endpoint}
Failure(detail, ep) == [error |-> detail, endpoint |-> ep]

IsSuccess(r) == "data" \in DOMAIN r /\ "error" \notin DOMAIN r
IsFailure(r) == "error" \in DOMAIN r /\ "data" \notin DOMAIN r

\* the guard "attempt < max_retries - 1" of the three retrying branches
ShouldRetry(a, mr) == a < mr - 1

\* variant: a constant delay instead of an exponential one
Backoff_Constant(a) == 1

\* time.sleep(2 ** attempt)
Backoff(a) == Pow2(a)

\* a branch that sleeps and continues while attempts are left, else returns
RetryOrFail(a, mr, detail, ep) ==
    IF ShouldRetry(a, mr)
    THEN [retry |-> TRUE, delay |-> Backoff(a)]
    ELSE [retry |-> FALSE, ret |-> Failure(detail, ep)]

Return(r) == [retry |-> FALSE, ret |-> r]

\* variant: the error payload is handled like an empty body (retried)
AttemptOutcome_RetryErrorPayload(r, a, mr, ep) ==
    CASE r.kind \in {"network", "http"} ->
            RetryOrFail(a, mr, "FMP API request failed after max_retries attempts", ep)
      [] r.kind = "badjson" ->
            IF r.exc = "requests.exceptions.JSONDecodeError"
            THEN RetryOrFail(a, mr, "FMP API request failed after max_retries attempts", ep)
            ELSE RetryOrFail(a, mr, "Invalid JSON response from FMP", ep)
      [] r.kind = "other" ->
            Return(Failure("Unexpected error fetching from FMP", ep))
      [] r.kind \in {"empty", "errobj"} ->
            RetryOrFail(a, mr, "No data returned from FMP API", ep)
      [] r.kind = "data" ->
            Return(Success(r.payload))

\* variant: a JSON decode error returns at once instead of being retried
AttemptOutcome_NoRetryOnBadJson(r, a, mr, ep) ==
    CASE r.kind \in {"network", "http"} ->
            RetryOrFail(a, mr, "FMP API request failed after max_retries attempts", ep)
      [] r.kind = "badjson" ->
            Return(Failure("Invalid JSON response from FMP", ep))
      [] r.kind = "other" ->
            Return(Failure("Unexpected error fetching from FMP", ep))
      [] r.kind = "empty" ->
            RetryOrFail(a, mr, "No data returned from FMP API", ep)
      [] r.kind = "errobj" ->
            Return(Failure("FMP API Error", ep))
      [] r.kind = "data" ->
            Return(Success(r.payload))

\* variant: no catch-all clause, an unexpected exception leaves the function
AttemptOutcome_NoCatchAll(r, a, mr, ep) ==
    CASE r.kind \in {"network", "http"} ->
            RetryOrFail(a, mr, "FMP API request failed after max_retries attempts", ep)
      [] r.kind = "badjson" ->
            IF r.exc = "requests.exceptions.JSONDecodeError"
            THEN RetryOrFail(a, mr, "FMP API request failed after max_retries attempts", ep)
            ELSE RetryOrFail(a, mr, "Invalid JSON response from FMP", ep)
      [] r.kind = "other" ->
            Return([raised |-> "Exception"])
      [] r.kind = "empty" ->
            RetryOrFail(a, mr, "No data returned from FMP API", ep)
      [] r.kind = "errobj" ->
            Return(Failure("FMP API Error", ep))
      [] r.kind = "data" ->
            Return(Success(r.payload))

\* the body of one loop iteration, for the answer r of the provider
AttemptOutcome(r, a, mr, ep) ==
    CASE r.kind \in {"network", "http"} ->
            RetryOrFail(a, mr, "FMP API request failed after max_retries attempts", ep)
      [] r.kind = "badjson" ->
            IF r.exc = "requests.exceptions.JSONDecodeError"
            THEN RetryOrFail(a, mr, "FMP API request failed after max_retries attempts", ep)
            ELSE RetryOrFail(a, mr, "Invalid JSON response from FMP", ep)
      [] r.kind = "other" ->
            Return(Failure("Unexpected error fetching from FMP", ep))
      [] r.kind = "empty" ->
            RetryOrFail(a, mr, "No data returned from FMP API", ep)
      [] r.kind = "errobj" ->
            Return(Failure("FMP API Error", ep))
      [] r.kind = "data" ->
            Return(Success(r.payload))

\* the statement after the loop
LoopExhausted(mr, ep) == Failure("Max retries exceeded", ep)

(***************************************************************************)
(* Provider payloads                                                       *)
(*                                                                         *)
(* Of the metrics calculate_financial_ratios copies, the model carries the *)
(* eight that the rest of the module reads (scorer, insights, peers); the  *)
(* others are copied by the same dict.get calls.                           *)
(***************************************************************************)
\* A JSON array of records, or any other truthy JSON body (an object without
\* an "Error Message" field): indexing the latter with [0] raises.
JsonList(items) == [shape |-> "list", items |-> items]
JsonObject(n)   == [shape |-> "object", size |-> n]

PayloadLen(p)    == IF p.shape = "list" THEN Len(p.items) ELSE p.size    \* len(data)
PayloadTruthy(p) == PayloadLen(p) > 0                                    \* "if data:"

\* records of the ratios-ttm endpoint
TTMAllNull == [symbol |-> None]
TTMStrong  == [priceEarningsRatio |-> <<15000>>, priceToBookRatio |-> <<2000>>,
               returnOnEquity |-> <<250>>, netProfitMargin |-> <<200>>,
               currentRatio |-> <<2000>>, quickRatio |-> <<1200>>,
               debtEquityRatio |-> <<200>>, assetTurnover |-> <<1100>>]
TTMPartial == [returnOnEquity |-> <<120>>, priceEarningsRatio |-> None,
               assetTurnover |-> <<0>>]
TTMRecords == {TTMAllNull, TTMStrong, TTMPartial}

\* records of the ratios (annual) endpoint
AnnualRecords == { [returnOnEquity |-> <<200>>], [returnOnEquity |-> <<100>>],
                   [returnOnEquity |-> <<0>>], [returnOnEquity |-> None],
                   [date |-> None] }

\* ticker.info of yfinance
InfoNoMetrics == [shortName |-> None]
InfoScenario  == [currentRatio |-> <<800>>, debtToEquity |-> <<2500>>,
                  trailingPE |-> <<35000>>, returnOnEquity |-> <<40>>]
InfoStrong    == [trailingPE |-> <<12000>>, priceToBook |-> <<1500>>,
                  returnOnEquity |-> <<220>>, profitMargins |-> <<160>>,
                  currentRatio |-> <<1800>>, quickRatio |-> <<1000>>,
                  debtToEquity |-> <<500>>]
YahooInfos == {InfoNoMetrics, InfoScenario, InfoStrong}

\* what reading ticker.info can do: raise, give a falsy info, give an info dict
YahooOutcomes ==
    { [outcome |-> "raised"], [outcome |-> "info", info |-> EmptyDict] }
    \cup { [outcome |-> "info", info |-> i] : i \in YahooInfos }

DataAnswers(ep) ==
    CASE ep = "ratios-ttm" ->
            { [kind |-> "data", payload |-> JsonList(<<r>>)] : r \in TTMRecords }
            \cup { [kind |-> "data", payload |-> JsonObject(1)] }
      [] ep = "ratios" ->
            { [kind |-> "data", payload |-> JsonList(<<r>>)] : r \in AnnualRecords }
            \cup { [kind |-> "data", payload |-> JsonList(<<r1, r2>>)] :
                       r1 \in AnnualRecords, r2 \in AnnualRecords }
            \cup { [kind |-> "data", payload |-> JsonObject(n)] : n \in 1..2 }
      [] OTHER ->
            { [kind |-> "data", payload |-> JsonList(<<TTMStrong>>)],
              [kind |-> "data", payload |-> JsonObject(1)] }

Answers(ep) == FailureAnswers \cup DataAnswers(ep)

(***************************************************************************)
(* calculate_financial_ratios (agent.py:135-293)                           *)
(***************************************************************************)
Categories == {"valuation_metrics", "profitability_ratios", "liquidity_ratios",
               "leverage_ratios", "efficiency_ratios"}

\* the dict built at lines 148-161
NewResult ==
    [ data_sources         |-> <<>>,
      financial_ratios     |-> EmptyDict,
      valuation_metrics    |-> EmptyDict,
      profitability_ratios |-> EmptyDict,
      liquidity_ratios     |-> EmptyDict,
      leverage_ratios      |-> EmptyDict,
      efficiency_ratios    |-> EmptyDict,
      educational_insights |-> <<>>,
      warnings             |-> <<>>,
      errors               |-> <<>> ]

NoProvenance == [c \in Categories |-> "none"]

\* the condition of lines 169 and 225: "data" in r and r["data"]
HasData(r) == "data" \in DOMAIN r /\ PayloadTruthy(r.data)

\* r["data"][0] raises unless the payload is an array
IndexRaises(p) == p.shape # "list"

\* lines 173-217: the five categories as filled from the first ratios-ttm record
FMPCategories(ratio_data) ==
    [ valuation_metrics    |-> [pe_ratio |-> Get(ratio_data, "priceEarningsRatio"),
                                pb_ratio |-> Get(ratio_data, "priceToBookRatio")],
      profitability_ratios |-> [roe        |-> Get(ratio_data, "returnOnEquity"),
                                net_margin |-> Get(ratio_data, "netProfitMargin")],
      liquidity_ratios     |-> [current_ratio |-> Get(ratio_data, "currentRatio"),
                                quick_ratio   |-> Get(ratio_data, "quickRatio")],
      leverage_ratios      |-> [debt_to_equity |-> Get(ratio_data, "debtEquityRatio")],
      efficiency_ratios    |-> [asset_turnover |-> Get(ratio_data, "assetTurnover")] ]

\* lines 248-275: the four categories the Yahoo Finance fallback fills
YahooCategories(info) ==
    [ valuation_metrics    |-> [pe_ratio |-> Get(info, "trailingPE"),
                                pb_ratio |-> Get(info, "priceToBook")],
      profitability_ratios |-> [roe        |-> Get(info, "returnOnEquity"),
                                net_margin |-> Get(info, "profitMargins")],
      liquidity_ratios     |-> [current_ratio |-> Get(info, "currentRatio"),
                                quick_ratio   |-> Get(info, "quickRatio")],
      leverage_ratios      |-> [debt_to_equity |-> Get(info, "debtToEquity")] ]

\* variant: the failure of the ratios-ttm fetch is not recorded
TTMUnavailable_Dropped(errors, r) == errors

\* line 220: result["errors"].append("FMP TTM ratios unavailable: ...")
TTMUnavailable(errors, r) ==
    Append(errors, [source |-> "FMP TTM ratios",
                    detail |-> IF "error" \in DOMAIN r THEN r.error ELSE "Unknown error"])

\* line 278: result["errors"].append("Yahoo Finance error: ...")
YahooError(errors) ==
    Append(errors, [source |-> "Yahoo Finance", detail |-> "exception"])

\* variant: the fallback runs whether or not a source was recorded
NeedsFallback_Always(res) == TRUE

\* line 239: "if not result['data_sources']"
NeedsFallback(res) == res.data_sources = <<>>

\* dict.get(k, 0)
GetOr0(d, k) == IF k \in DOMAIN d THEN d[k] ELSE <<0>>

\* lines 230-236: the ROE trend, in hundredths of a percent, or None
RoeTrend(annual_data) ==
    IF Len(annual_data) >= 2
    THEN LET current_roe == GetOr0(annual_data[1], "returnOnEquity")
             prior_roe   == GetOr0(annual_data[2], "returnOnEquity")
         IN  IF Truthy(current_roe) /\ Truthy(prior_roe)
             THEN <<((current_roe[1] - prior_roe[1]) * 10000) \div prior_roe[1]>>
             ELSE None
    ELSE None

\* _generate_ratio_insights (lines 295-368), the texts shortened to tags
PeInsight(pe) ==
    IF Truthy(pe) /\ pe[1] > 0
    THEN IF pe[1] > 25000 THEN <<"High P/E Ratio">>
         ELSE IF pe[1] < 10000 THEN <<"Low P/E Ratio">> ELSE <<"Moderate P/E Ratio">>
    ELSE <<>>

RoeInsight(roe) ==
    IF Truthy(roe) /\ roe[1] > 0
    THEN LET roe_pct == IF roe[1] < 1000 THEN roe[1] * 100 ELSE roe[1]
         IN  IF roe_pct > 20000 THEN <<"Excellent ROE">>
             ELSE IF roe_pct > 15000 THEN <<"Good ROE">>
             ELSE IF roe_pct < 10000 THEN <<"Low ROE">> ELSE <<>>
    ELSE <<>>

CurrentRatioInsight(cr) ==
    IF Truthy(cr) /\ cr[1] >= 1000
    THEN IF cr[1] > 2500 THEN <<"High Current Ratio">> ELSE <<"Healthy Current Ratio">>
    ELSE <<>>

CurrentRatioWarning(cr) ==
    IF Truthy(cr) /\ cr[1] < 1000 THEN <<"Low Current Ratio">> ELSE <<>>

DebtInsight(de) ==
    IF Truthy(de) /\ de[1] <= 2000 /\ de[1] < 300
    THEN <<"Conservative Debt Level">> ELSE <<>>

DebtWarning(de) ==
    IF Truthy(de) /\ de[1] > 2000 THEN <<"High Debt-to-Equity">> ELSE <<>>

_generate_ratio_insights(res) ==
    LET pe == Get(res.valuation_metrics, "pe_ratio")
        roe == Get(res.profitability_ratios, "roe")
        cr == Get(res.liquidity_ratios, "current_ratio")
        de == Get(res.leverage_ratios, "debt_to_equity")
        ins == res.educational_insights \o PeInsight(pe) \o RoeInsight(roe)
                 \o CurrentRatioInsight(cr) \o DebtInsight(de)
        wrn == res.warnings \o CurrentRatioWarning(cr) \o DebtWarning(de)
    IN  [res EXCEPT !.warnings = wrn,
                    !.educational_insights =
                        IF ins = <<>> /\ wrn = <<>>
                        THEN <<"Limited ratio data available">> ELSE ins]

\* _add_canadian_market_context (lines 370-405): the general notes
_add_canadian_market_context(res) ==
    [res EXCEPT !.educational_insights = Append(@, "Canadian Stock Considerations")]

\* lines 280-286: the end of the try block
Finish(res) == _add_canadian_market_context(_generate_ratio_insights(res))

\* lines 288-293: the dict returned when anything in the try block raised
CriticalError ==
    [symbol |-> "symbol", error |-> "Critical error in financial ratio calculation",
     timestamp |-> "now"]

(***************************************************************************)
(* analyze_financial_health_score (agent.py:572-703) and                   *)
(* _interpret_health_score (agent.py:705-783)                              *)
(***************************************************************************)
\* variant: the return-on-equity bands are worth 20, 16, 12 and 8 points
RoeTerm_DoublePoints(roe) ==
    IF Truthy(roe)
    THEN LET roe_pct == IF roe[1] < 1000 THEN roe[1] * 100 ELSE roe[1]
         IN  IF roe_pct > 20000 THEN 20
             ELSE IF roe_pct > 15000 THEN 16
             ELSE IF roe_pct > 10000 THEN 12
             ELSE IF roe_pct > 5000 THEN 8 ELSE 0
    ELSE 0

\* lines 608-613
RoeTerm(roe) ==
    IF Truthy(roe)
    THEN LET roe_pct == IF roe[1] < 1000 THEN roe[1] * 100 ELSE roe[1]
         IN  IF roe_pct > 20000 THEN 10
             ELSE IF roe_pct > 15000 THEN 8
             ELSE IF roe_pct > 10000 THEN 6
             ELSE IF roe_pct > 5000 THEN 4 ELSE 0
    ELSE 0

\* lines 615-620
MarginTerm(net_margin) ==
    IF Truthy(net_margin)
    THEN LET margin_pct == IF net_margin[1] < 1000 THEN net_margin[1] * 100
                           ELSE net_margin[1]
         IN  IF margin_pct > 15000 THEN 10
             ELSE IF margin_pct > 10000 THEN 8
             ELSE IF margin_pct > 5000 THEN 6
             ELSE IF margin_pct > 0 THEN 4 ELSE 0
    ELSE 0

\* lines 630-634
CurrentRatioTerm(cr) ==
    IF Truthy(cr)
    THEN IF 1500 <= cr[1] /\ cr[1] <= 3000 THEN 10
         ELSE IF 1000 <= cr[1] /\ cr[1] < 1500 THEN 7
         ELSE IF cr[1] >= 3000 THEN 6
         ELSE IF cr[1] >= 800 THEN 4 ELSE 0
    ELSE 0

\* lines 636-639
QuickRatioTerm(qr) ==
    IF Truthy(qr)
    THEN IF qr[1] >= 1000 THEN 10
         ELSE IF qr[1] >= 700 THEN 7
         ELSE IF qr[1] >= 500 THEN 4 ELSE 0
    ELSE 0

\* variant: the last band has no upper end, a ratio above 2.0 still earns 5
LeverageScore_OpenLastBand(de) ==
    IF de # None
    THEN IF de[1] <= 300 THEN 20
         ELSE IF de[1] <= 600 THEN 15
         ELSE IF de[1] <= 1000 THEN 10 ELSE 5
    ELSE 0

\* lines 647-653
LeverageScore(de) ==
    IF de # None
    THEN IF de[1] <= 300 THEN 20
         ELSE IF de[1] <= 600 THEN 15
         ELSE IF de[1] <= 1000 THEN 10
         ELSE IF de[1] <= 2000 THEN 5 ELSE 0
    ELSE 0

\* lines 663-667
PeTerm(pe) ==
    IF Truthy(pe) /\ pe[1] > 0
    THEN IF 10000 <= pe[1] /\ pe[1] <= 20000 THEN 10
         ELSE IF (8000 <= pe[1] /\ pe[1] < 10000) \/ (20000 < pe[1] /\ pe[1] <= 25000) THEN 8
         ELSE IF (5000 <= pe[1] /\ pe[1] < 8000) \/ (25000 < pe[1] /\ pe[1] <= 30000) THEN 6
         ELSE IF pe[1] > 30000 THEN 2 ELSE 0
    ELSE 0

\* lines 669-672
PbTerm(pb) ==
    IF Truthy(pb) /\ pb[1] > 0
    THEN IF 1000 <= pb[1] /\ pb[1] <= 3000 THEN 10
         ELSE IF (500 <= pb[1] /\ pb[1] < 1000) \/ (3000 < pb[1] /\ pb[1] <= 5000) THEN 8
         ELSE IF pb[1] > 5000 THEN 4 ELSE 0
    ELSE 0

\* variant: the base score is 0, missing data is scored like the other terms
EfficiencyScore_NoDefault(at) ==
    IF Truthy(at)
    THEN IF at[1] >= 1000 THEN 20
         ELSE IF at[1] >= 750 THEN 15
         ELSE IF at[1] >= 500 THEN 10 ELSE 5
    ELSE 0

\* lines 680-685
EfficiencyScore(at) ==
    IF Truthy(at)
    THEN IF at[1] >= 1000 THEN 20
         ELSE IF at[1] >= 750 THEN 15
         ELSE IF at[1] >= 500 THEN 10 ELSE 5
    ELSE 10

ScoreCategories == <<"profitability", "liquidity", "leverage", "valuation", "efficiency">>

\* lines 600-687: the dict scores
Scores(an) ==
    [ profitability |-> RoeTerm(Get(an.profitability_ratios, "roe"))
                        + MarginTerm(Get(an.profitability_ratios, "net_margin")),
      liquidity     |-> CurrentRatioTerm(Get(an.liquidity_ratios, "current_ratio"))
                        + QuickRatioTerm(Get(an.liquidity_ratios, "quick_ratio")),
      leverage      |-> LeverageScore(Get(an.leverage_ratios, "debt_to_equity")),
      valuation     |-> PeTerm(Get(an.valuation_metrics, "pe_ratio"))
                        + PbTerm(Get(an.valuation_metrics, "pb_ratio")),
      efficiency    |-> EfficiencyScore(Get(an.efficiency_ratios, "asset_turnover")) ]

\* line 690: sum(scores.values())
TotalScore(sc) ==
    sc.profitability + sc.liquidity + sc.leverage + sc.valuation + sc.efficiency

\* lines 711-737
HealthGrade(total_score) ==
    IF total_score >= 80 THEN "Excellent (A)"
    ELSE IF total_score >= 70 THEN "Good (B)"
    ELSE IF total_score >= 60 THEN "Fair (C)"
    ELSE IF total_score >= 50 THEN "Poor (D)"
    ELSE "Very Poor (F)"

\* lines 748-756
Strengths(sc)  == SelectSeq(ScoreCategories, LAMBDA c : sc[c] >= 12)
Weaknesses(sc) == SelectSeq(ScoreCategories, LAMBDA c : sc[c] < 8)

\* lines 585-697: the value returned for the analysis an
HealthOf(an) ==
    IF "error" \in DOMAIN an
    THEN [error |-> "Could not calculate health score"]
    ELSE LET sc == Scores(an)
         IN  [ health_score    |-> TotalScore(sc),
               score_breakdown |-> sc,
               health_grade    |-> HealthGrade(TotalScore(sc)),
               strengths       |-> Strengths(sc),
               weaknesses      |-> Weaknesses(sc) ]

(***************************************************************************)
(* The state machine                                                       *)
(***************************************************************************)
Init ==
    /\ op = "none"
    /\ pc = "idle"
    /\ endpoint = "none"
    /\ max_retries = 0
    /\ attempt = 0
    /\ resps = <<>>
    /\ sleeps = <<>>
    /\ fetch_ret = NoValue
    /\ fmp_ratios_ttm = NoValue
    /\ fmp_ratios_annual = NoValue
    /\ result = NoValue
    /\ yahoo = [outcome |-> "not_consulted"]
    /\ prov = NoProvenance
    /\ analysis = NoValue
    /\ health = NoValue
    /\ symbol = "none"
    /\ sector = None
    /\ primary_analysis = NoValue
    /\ peers = <<>>
    /\ peer_idx = 0
    /\ peer_data = EmptyDict
    /\ peer_log = <<>>
    /\ comparison = NoValue
    /\ report = NoValue

\* entry of fetch_fmp_data_with_retry(ep, max_retries = mr)
StartFetch(ep, mr) ==
    /\ endpoint' = ep
    /\ max_retries' = mr
    /\ attempt' = 0
    /\ resps' = <<>>
    /\ sleeps' = <<>>
    /\ fetch_ret' = NoValue
    /\ pc' = "fetch_loop"

\* a client calls fetch_fmp_data_with_retry directly
CallFetch ==
    /\ pc = "idle"
    /\ \E mr \in 0..MaxRetriesBound : StartFetch("quote", mr)
    /\ op' = "fetch_fmp_data_with_retry"
    /\ UNCHANGED <<passVars, health, peerVars, report>>

\* a client calls calculate_financial_ratios: lines 145-167
CallRatios ==
    /\ pc = "idle"
    /\ op' = "calculate_financial_ratios"
    /\ result' = NewResult
    /\ StartFetch("ratios-ttm", DEFAULT_MAX_RETRIES)
    /\ UNCHANGED <<fmp_ratios_ttm, fmp_ratios_annual, yahoo, prov, analysis, health, peerVars, report>>

\* a client calls analyze_financial_health_score: line 583, then as above
CallHealth ==
    /\ pc = "idle"
    /\ op' = "analyze_financial_health_score"
    /\ result' = NewResult
    /\ StartFetch("ratios-ttm", DEFAULT_MAX_RETRIES)
    /\ UNCHANGED <<fmp_ratios_ttm, fmp_ratios_annual, yahoo, prov, analysis, health, peerVars, report>>

\* one iteration of the loop of fetch_fmp_data_with_retry (lines 54-102)
FetchAttempt ==
    /\ pc = "fetch_loop"
    /\ attempt < max_retries
    /\ \E r \in Answers(endpoint) :
         LET out == AttemptOutcome(r, attempt, max_retries, endpoint)
         IN  /\ resps' = Append(resps, r.kind)
             /\ IF out.retry
                THEN /\ sleeps' = Append(sleeps, out.delay)
                     /\ attempt' = attempt + 1
                     /\ UNCHANGED <<fetch_ret, pc>>
                ELSE /\ fetch_ret' = out.ret
                     /\ pc' = "fetch_returned"
                     /\ UNCHANGED <<sleeps, attempt>>
    /\ UNCHANGED <<op, endpoint, max_retries, passVars, health, peerVars, report>>

\* the loop ran out of iterations (line 104)
FetchLoopEnd ==
    /\ pc = "fetch_loop"
    /\ attempt >= max_retries
    /\ fetch_ret' = LoopExhausted(max_retries, endpoint)
    /\ pc' = "fetch_returned"
    /\ UNCHANGED <<op, endpoint, max_retries, attempt, resps, sleeps, passVars, health, peerVars, report>>

InPass == op \in {"calculate_financial_ratios", "analyze_financial_health_score"}

\* lines 167-223: use the ratios-ttm outcome, then start the annual fetch
AdoptTTM ==
    /\ pc = "fetch_returned" /\ InPass /\ endpoint = "ratios-ttm"
    /\ fmp_ratios_ttm' = fetch_ret
    /\ IF HasData(fetch_ret) /\ IndexRaises(fetch_ret.data)
       THEN \* ["data"][0] raises; the except clause of line 288 returns
            /\ analysis' = CriticalError
            /\ pc' = "ratios_returned"
            /\ UNCHANGED <<endpoint, max_retries, attempt, resps, sleeps, fetch_ret,
                           result, prov>>
       ELSE /\ IF HasData(fetch_ret)
               THEN LET cats == FMPCategories(fetch_ret.data.items[1])
                    IN  /\ result' = [result EXCEPT
                              !.data_sources = Append(@, "FMP TTM Ratios"),
                              !.valuation_metrics = cats.valuation_metrics,
                              !.profitability_ratios = cats.profitability_ratios,
                              !.liquidity_ratios = cats.liquidity_ratios,
                              !.leverage_ratios = cats.leverage_ratios,
                              !.efficiency_ratios = cats.efficiency_ratios]
                        /\ prov' = [c \in Categories |-> "FMP"]
               ELSE /\ result' = [result EXCEPT !.errors = TTMUnavailable(@, fetch_ret)]
                    /\ UNCHANGED prov
            /\ StartFetch("ratios", DEFAULT_MAX_RETRIES)
            /\ UNCHANGED analysis
    /\ UNCHANGED <<op, fmp_ratios_annual, yahoo, health, peerVars, report>>

\* lines 223-236: use the annual outcome
ProcessAnnual ==
    /\ pc = "fetch_returned" /\ InPass /\ endpoint = "ratios"
    /\ fmp_ratios_annual' = fetch_ret
    /\ IF HasData(fetch_ret) /\ PayloadLen(fetch_ret.data) >= 2
                             /\ IndexRaises(fetch_ret.data)
       THEN \* annual_data[0] raises; the except clause of line 288 returns
            /\ analysis' = CriticalError
            /\ pc' = "ratios_returned"
            /\ UNCHANGED result
       ELSE /\ result' =
                 IF HasData(fetch_ret)
                 THEN LET trend == IF fetch_ret.data.shape = "list"
                                   THEN RoeTrend(fetch_ret.data.items) ELSE None
                      IN  [result EXCEPT
                              !.data_sources = Append(@, "FMP Annual Ratios"),
                              !.financial_ratios =
                                  IF trend # None THEN [roe_trend_pct |-> trend] ELSE @]
                 ELSE result
            /\ pc' = "fallback"
            /\ UNCHANGED analysis
    /\ UNCHANGED <<op, fetchVars, fmp_ratios_ttm, yahoo, prov, health, peerVars, report>>

\* lines 238-286 when no source has been recorded: consult Yahoo Finance, finish
YahooFallback ==
    /\ pc = "fallback" /\ InPass
    /\ NeedsFallback(result)
    /\ \E y \in YahooOutcomes :
         /\ yahoo' = y
         /\ IF y.outcome = "raised"
            THEN /\ analysis' = Finish([result EXCEPT !.errors = YahooError(@)])
                 /\ UNCHANGED prov
            ELSE IF y.info # EmptyDict
            THEN LET cats == YahooCategories(y.info)
                 IN  /\ analysis' = Finish([result EXCEPT
                              !.data_sources = Append(@, "Yahoo Finance"),
                              !.valuation_metrics = cats.valuation_metrics,
                              !.profitability_ratios = cats.profitability_ratios,
                              !.liquidity_ratios = cats.liquidity_ratios,
                              !.leverage_ratios = cats.leverage_ratios])
                     /\ prov' = [c \in Categories |->
                                    IF c = "efficiency_ratios" THEN prov[c] ELSE "Yahoo"]
            ELSE /\ analysis' = Finish(result)
                 /\ UNCHANGED prov
    /\ result' = analysis'
    /\ pc' = "ratios_returned"
    /\ UNCHANGED <<op, fetchVars, fmp_ratios_ttm, fmp_ratios_annual, health, peerVars, report>>

\* lines 238-286 when a source has been recorded: no fallback, finish
SkipFallback ==
    /\ pc = "fallback" /\ InPass
    /\ ~NeedsFallback(result)
    /\ analysis' = Finish(result)
    /\ result' = analysis'
    /\ pc' = "ratios_returned"
    /\ UNCHANGED <<op, fetchVars, fmp_ratios_ttm, fmp_ratios_annual, yahoo, prov, health, peerVars, report>>

\* analyze_financial_health_score after its call of calculate_financial_ratios
Score ==
    /\ pc = "ratios_returned"
    /\ op = "analyze_financial_health_score"
    /\ health' = HealthOf(analysis)
    /\ pc' = "health_returned"
    /\ UNCHANGED <<op, fetchVars, passVars, peerVars, report>>

Next ==
    \/ CallFetch
    \/ CallRatios
    \/ CallHealth
    \/ FetchAttempt
    \/ FetchLoopEnd
    \/ AdoptTTM
    \/ ProcessAnnual
    \/ YahooFallback
    \/ SkipFallback
    \/ Score

Spec == Init /\ [][Next]_vars

(***************************************************************************)
(* Properties                                                              *)
(***************************************************************************)
\* fetch_fmp_data_with_retry has returned; resps and sleeps are its history
FetchReturned == fetch_ret # NoValue

\* calculate_financial_ratios has returned the value analysis
PassReturned == analysis # NoValue

Calls == Len(resps)

AllAnswers(kinds) == \A i \in 1..Len(resps) : resps[i] \in kinds

\* a category of res holds at least one metric that is not None
Populated(res, c) == \E k \in DOMAIN res[c] : res[c][k] # None

\* a provider's category set holds at least one metric that is not None
Usable(cats) == \E c \in DOMAIN cats : \E k \in DOMAIN cats[c] : cats[c][k] # None

Recorded(errors, e) == \E i \in 1..Len(errors) : errors[i] = e

YahooConsulted == yahoo.outcome # "not_consulted"

\* C1: whenever the ratios-ttm fetch of a pass ended in a Failure, Yahoo
\* Finance has been consulted by the time calculate_financial_ratios returns,
\* whatever the annual fetch returned.
\* (Stated for the passes that return a result; a pass that ends in the
\* critical-error dict is left aside.)
C1_FallbackAfterTTMFailure ==
    (PassReturned /\ "error" \notin DOMAIN analysis /\ IsFailure(fmp_ratios_ttm))
    => YahooConsulted

\* C2: if FMP answered the ratios-ttm fetch with an error payload and Yahoo
\* Finance returned an info with data, the result is a normal one, every
\* populated category holds Yahoo's values, and FMP's failure is in errors.
C2_FallbackOrdering ==
    ( /\ PassReturned
      /\ IsFailure(fmp_ratios_ttm) /\ fmp_ratios_ttm.error = "FMP API Error"
      /\ yahoo.outcome = "info" /\ Usable(YahooCategories(yahoo.info)) )
    => /\ "error" \notin DOMAIN analysis
       /\ \A c \in Categories : Populated(analysis, c) =>
              /\ prov[c] = "Yahoo"
              /\ analysis[c] = YahooCategories(yahoo.info)[c]
       /\ Recorded(analysis.errors,
                   [source |-> "FMP TTM ratios", detail |-> "FMP API Error"])

C2_Witness ==
    /\ PassReturned
    /\ IsFailure(fmp_ratios_ttm) /\ fmp_ratios_ttm.error = "FMP API Error"
    /\ yahoo.outcome = "info" /\ yahoo.info = InfoScenario
    /\ Populated(analysis, "leverage_ratios")

\* C3: a request answered with an error payload is never repeated: it is the
\* last request of the fetch, no sleep follows it and a Failure is returned;
\* when it is the first answer, exactly one request was made and no sleep.
C3_ErrorPayloadNotRetried ==
    \A i \in 1..Len(resps) : resps[i] = "errobj" =>
        /\ i = Calls
        /\ Len(sleeps) = i - 1
        /\ FetchReturned /\ IsFailure(fetch_ret)
        /\ (i = 1 => Calls = 1 /\ sleeps = <<>>)

C3_Witness ==
    /\ FetchReturned /\ max_retries >= 2
    /\ resps = <<"errobj">> /\ sleeps = <<>> /\ IsFailure(fetch_ret)

C5_NetworkErrorBackoff ==
    (FetchReturned /\ Calls >= 1 /\ AllAnswers({"network"}))
    => /\ Calls <= max_retries + 1
       /\ Len(sleeps) = Calls - 1
       /\ \A i \in 2..Len(sleeps) :
              sleeps[i] = 2 * sleeps[i - 1] /\ sleeps[i] > sleeps[i - 1]
       /\ IsFailure(fetch_ret)

C5_Witness ==
    /\ FetchReturned /\ max_retries = 3
    /\ resps = <<"network", "network", "network">>
    /\ sleeps = <<1, 2>> /\ IsFailure(fetch_ret)

\* C6: fetch_fmp_data_with_retry makes at most max_retries requests and what
\* it returns is a Success or a Failure, never both and never neither (an
\* exception leaving the function would be neither).
C6_FetchOutcomeTotal ==
    /\ attempt <= max_retries /\ Calls <= max_retries
    /\ FetchReturned => (IsSuccess(fetch_ret) /\ ~IsFailure(fetch_ret))
                        \/ (IsFailure(fetch_ret) /\ ~IsSuccess(fetch_ret))

C6_Witness ==
    /\ FetchReturned /\ Calls = 2
    /\ resps[1] = "empty" /\ resps[2] = "other" /\ IsFailure(fetch_ret)

\* C7: a provider's answer is adopted as a whole: after the ratios-ttm answer
\* has filled the categories Yahoo Finance is never consulted, and all
\* populated categories of a result come from one provider.
C7_OneProvider ==
    /\ (fmp_ratios_ttm # NoValue /\ HasData(fmp_ratios_ttm)) => ~YahooConsulted
    /\ result # NoValue =>
          \A c1 \in Categories, c2 \in Categories :
              Populated(result, c1) /\ Populated(result, c2) => prov[c1] = prov[c2]

C7_Witness ==
    /\ PassReturned /\ "error" \notin DOMAIN analysis
    /\ HasData(fmp_ratios_ttm)
    /\ \A c \in Categories : Populated(analysis, c) /\ prov[c] = "FMP"

\* C8: if the ratios-ttm fetch succeeded with a record in which every mapped
\* metric is null or absent, Yahoo Finance has been consulted by the time
\* calculate_financial_ratios returns.  (Stated for the passes that return a
\* result.)
C8_FallbackOnUnusableRecord ==
    ( /\ PassReturned /\ "error" \notin DOMAIN analysis
      /\ HasData(fmp_ratios_ttm) /\ ~IndexRaises(fmp_ratios_ttm.data)
      /\ ~Usable(FMPCategories(fmp_ratios_ttm.data.items[1])) )
    => YahooConsulted

\* C9: if both FMP fetches returned a Failure and Yahoo Finance raised or gave
\* no info, the result is a normal one with the five categories empty and
\* errors holds a detail for FMP and a detail for Yahoo Finance.
C9_AllProvidersFail ==
    ( /\ PassReturned
      /\ IsFailure(fmp_ratios_ttm) /\ IsFailure(fmp_ratios_annual)
      /\ \/ yahoo.outcome = "raised"
         \/ yahoo.outcome = "info" /\ yahoo.info = EmptyDict )
    => /\ "error" \notin DOMAIN analysis
       /\ \A c \in Categories : analysis[c] = EmptyDict
       /\ \E i \in 1..Len(analysis.errors) :
              analysis.errors[i].source = "FMP TTM ratios"
       /\ \E i \in 1..Len(analysis.errors) :
              analysis.errors[i].source = "Yahoo Finance"

(***************************************************************************)
(* The scorer on a grid of ratio sets                                      *)
(*                                                                         *)
(* analyze_financial_health_score scores whatever calculate_financial_     *)
(* ratios returned.  SpecScore starts where that call has returned, with   *)
(* the categories filled from a ratios-ttm record drawn from a grid of     *)
(* values on both sides of the scorer's thresholds, or with the            *)
(* critical-error dict.                                                    *)
(***************************************************************************)
RoeValues           == {None, <<-50>>, <<40>>, <<120>>, <<180>>, <<250>>, <<1500>>}
NetMarginValues     == {None, <<0>>, <<30>>, <<120>>, <<200>>}
CurrentRatioValues  == {None, <<800>>, <<1200>>, <<2000>>, <<3500>>}
QuickRatioValues    == {None, <<400>>, <<800>>, <<1200>>}
DebtToEquityValues  == {None, <<0>>, <<500>>, <<1500>>, <<2500>>}
PeValues            == {None, <<-5000>>, <<9000>>, <<15000>>, <<28000>>, <<35000>>}
PbValues            == {None, <<700>>, <<2000>>, <<6000>>}
AssetTurnoverValues == {None, <<0>>, <<600>>, <<1100>>}

GridRecords ==
    [ priceEarningsRatio : PeValues, priceToBookRatio : PbValues,
      returnOnEquity : RoeValues, netProfitMargin : NetMarginValues,
      currentRatio : CurrentRatioValues, quickRatio : QuickRatioValues,
      debtEquityRatio : DebtToEquityValues, assetTurnover : AssetTurnoverValues ]

\* what calculate_financial_ratios returns when ratios-ttm gave the record rec
\* and the annual fetch failed
ResultFromTTM(rec) ==
    LET cats == FMPCategories(rec)
    IN  Finish([NewResult EXCEPT
                   !.data_sources = <<"FMP TTM Ratios">>,
                   !.valuation_metrics = cats.valuation_metrics,
                   !.profitability_ratios = cats.profitability_ratios,
                   !.liquidity_ratios = cats.liquidity_ratios,
                   !.leverage_ratios = cats.leverage_ratios,
                   !.efficiency_ratios = cats.efficiency_ratios])

InitScore ==
    /\ op = "analyze_financial_health_score"
    /\ pc = "ratios_returned"
    /\ endpoint = "ratios"
    /\ max_retries = DEFAULT_MAX_RETRIES
    /\ attempt = 0
    /\ resps = <<"errobj">>
    /\ sleeps = <<>>
    /\ fetch_ret = Failure("FMP API Error", "ratios")
    /\ fmp_ratios_annual = fetch_ret
    /\ yahoo = [outcome |-> "not_consulted"]
    /\ health = NoValue
    /\ \/ \E rec \in GridRecords :
             /\ fmp_ratios_ttm = Success(JsonList(<<rec>>))
             /\ analysis = ResultFromTTM(rec)
             /\ prov = [c \in Categories |-> "FMP"]
       \/ /\ fmp_ratios_ttm = Success(JsonObject(1))
          /\ analysis = CriticalError
          /\ prov = NoProvenance
    /\ result = IF "error" \in DOMAIN analysis THEN NewResult ELSE analysis
    /\ symbol = "none"
    /\ sector = None
    /\ primary_analysis = NoValue
    /\ peers = <<>>
    /\ peer_idx = 0
    /\ peer_data = EmptyDict
    /\ peer_log = <<>>
    /\ comparison = NoValue
    /\ report = NoValue

SpecScore == InitScore /\ [][Score]_vars

ScoreReturned == health # NoValue

\* C10: for every ratio set the scorer returns five integer subscores in
\* 0..20, a health_score that is their sum and lies in 0..100, and the grade
\* given by the thresholds 80 (A), 70 (B), 60 (C), 50 (D), else F.
C10_ScoreBoundsAndGrade ==
    (ScoreReturned /\ "error" \notin DOMAIN analysis)
    => /\ "error" \notin DOMAIN health
       /\ DOMAIN health.score_breakdown =
              {"profitability", "liquidity", "leverage", "valuation", "efficiency"}
       /\ \A c \in DOMAIN health.score_breakdown :
              health.score_breakdown[c] \in 0..20
       /\ health.health_score =
              health.score_breakdown.profitability + health.score_breakdown.liquidity
              + health.score_breakdown.leverage + health.score_breakdown.valuation
              + health.score_breakdown.efficiency
       /\ health.health_score \in 0..100
       /\ (health.health_grade = "Excellent (A)") = (health.health_score >= 80)
       /\ (health.health_grade = "Good (B)") =
              (health.health_score >= 70 /\ health.health_score < 80)
       /\ (health.health_grade = "Fair (C)") =
              (health.health_score >= 60 /\ health.health_score < 70)
       /\ (health.health_grade = "Poor (D)") =
              (health.health_score >= 50 /\ health.health_score < 60)
       /\ (health.health_grade = "Very Poor (F)") = (health.health_score < 50)

C10_Witness ==
    /\ ScoreReturned /\ "error" \notin DOMAIN health
    /\ health.score_breakdown.profitability = 20
    /\ health.score_breakdown.leverage = 0
    /\ health.health_score >= 50 /\ health.health_score < 60
    /\ health.health_grade = "Poor (D)"

\* the metric k of category c in the analysis an, None when absent
Metric(an, c, k) == Get(an[c], k)

\* C11: with return on equity given as a fraction, its term of the
\* profitability subscore is 10 above 20%, 8 above 15%, 6 above 10%, 4 above
\* 5% and 0 otherwise, for every value.  (Read off the profitability
\* subscore of the ratio sets that have no net margin.)
C11_RoeBands ==
    ( /\ ScoreReturned /\ "error" \notin DOMAIN analysis
      /\ Metric(analysis, "profitability_ratios", "roe") # None
      /\ Metric(analysis, "profitability_ratios", "net_margin") = None )
    => LET roe == Metric(analysis, "profitability_ratios", "roe")[1]
       IN  health.score_breakdown.profitability =
               IF roe > 200 THEN 10
               ELSE IF roe > 150 THEN 8
               ELSE IF roe > 100 THEN 6
               ELSE IF roe > 50 THEN 4 ELSE 0

\* C12: a missing metric adds 0 to its subscore, a missing asset turnover
\* gives efficiency 10, and a ratio set without any metric scores 0,0,0,0,10.
C12_MissingMetrics ==
    (ScoreReturned /\ "error" \notin DOMAIN analysis)
    => LET sb  == health.score_breakdown
           roe == Metric(analysis, "profitability_ratios", "roe")
           nm  == Metric(analysis, "profitability_ratios", "net_margin")
           cr  == Metric(analysis, "liquidity_ratios", "current_ratio")
           qr  == Metric(analysis, "liquidity_ratios", "quick_ratio")
           de  == Metric(analysis, "leverage_ratios", "debt_to_equity")
           pe  == Metric(analysis, "valuation_metrics", "pe_ratio")
           pb  == Metric(analysis, "valuation_metrics", "pb_ratio")
           at  == Metric(analysis, "efficiency_ratios", "asset_turnover")
       IN  /\ roe = None => sb.profitability = MarginTerm(nm)
           /\ nm = None => sb.profitability = RoeTerm(roe)
           /\ (roe = None /\ nm = None) => sb.profitability = 0
           /\ cr = None => sb.liquidity = QuickRatioTerm(qr)
           /\ qr = None => sb.liquidity = CurrentRatioTerm(cr)
           /\ (cr = None /\ qr = None) => sb.liquidity = 0
           /\ de = None => sb.leverage = 0
           /\ pe = None => sb.valuation = PbTerm(pb)
           /\ pb = None => sb.valuation = PeTerm(pe)
           /\ (pe = None /\ pb = None) => sb.valuation = 0
           /\ at = None => sb.efficiency = 10
           /\ (roe = None /\ nm = None /\ cr = None /\ qr = None /\ de = None
               /\ pe = None /\ pb = None /\ at = None)
              => /\ sb = [profitability |-> 0, liquidity |-> 0, leverage |-> 0,
                          valuation |-> 0, efficiency |-> 10]
                 /\ health.health_score = 10

C12_Witness ==
    /\ ScoreReturned /\ "error" \notin DOMAIN analysis
    /\ \A c \in Categories : ~Populated(analysis, c)
    /\ health.score_breakdown.efficiency = 10
    /\ health.health_score = 10

\* calculate_financial_ratios returned and analyze_financial_health_score
\* scored it: the end-to-end scenario, FMP failing every attempt of both
\* fetches with a request error and Yahoo Finance returning InfoScenario
EndToEndScenario ==
    /\ op = "analyze_financial_health_score" /\ ScoreReturned
    /\ IsFailure(fmp_ratios_ttm)
    /\ fmp_ratios_ttm.error = "FMP API request failed after max_retries attempts"
    /\ IsFailure(fmp_ratios_annual)
    /\ yahoo.outcome = "info" /\ yahoo.info = InfoScenario

\* C13: in the end-to-end scenario (current ratio 0.8, debt-to-equity 2.5,
\* P/E 35, ROE 0.04 from Yahoo Finance) leverage scores 0, liquidity,
\* valuation and profitability each score below 8, the total is below 60 and
\* the grade is the D or F that the thresholds give.
C13_EndToEnd ==
    EndToEndScenario
    => /\ "error" \notin DOMAIN health
       /\ health.score_breakdown.leverage = 0
       /\ health.score_breakdown.liquidity < 8
       /\ health.score_breakdown.valuation < 8
       /\ health.score_breakdown.profitability < 8
       /\ health.health_score < 60
       /\ health.health_grade \in {"Poor (D)", "Very Poor (F)"}
       /\ (health.health_grade = "Poor (D)") = (health.health_score >= 50)

C13_Witness ==
    /\ EndToEndScenario
    /\ resps = <<"network", "network", "network">>
    /\ health.health_score = 16
    /\ health.health_grade = "Very Poor (F)"

(***************************************************************************)
(* calculate_financial_ratios as one step                                  *)
(*                                                                         *)
(* perform_peer_comparison and generate_comprehensive_report call          *)
(* calculate_financial_ratios several times.  There a call is one step     *)
(* that takes what the three provider calls of the pass return: the        *)
(* ratios-ttm fetch, the annual fetch and ticker.info.                     *)
(***************************************************************************)
\* lines 167-220
AfterTTM(ttm) ==
    IF HasData(ttm)
    THEN LET cats == FMPCategories(ttm.data.items[1])
         IN  [NewResult EXCEPT
                 !.data_sources = Append(@, "FMP TTM Ratios"),
                 !.valuation_metrics = cats.valuation_metrics,
                 !.profitability_ratios = cats.profitability_ratios,
                 !.liquidity_ratios = cats.liquidity_ratios,
                 !.leverage_ratios = cats.leverage_ratios,
                 !.efficiency_ratios = cats.efficiency_ratios]
    ELSE [NewResult EXCEPT !.errors = TTMUnavailable(@, ttm)]

\* lines 223-236
AfterAnnual(res, annual) ==
    IF HasData(annual)
    THEN LET trend == IF annual.data.shape = "list"
                      THEN RoeTrend(annual.data.items) ELSE None
         IN  [res EXCEPT
                 !.data_sources = Append(@, "FMP Annual Ratios"),
                 !.financial_ratios =
                     IF trend # None THEN [roe_trend_pct |-> trend] ELSE @]
    ELSE res

\* lines 238-278
AfterFallback(res, y) ==
    IF ~NeedsFallback(res) THEN res
    ELSE IF y.outcome = "raised" THEN [res EXCEPT !.errors = YahooError(@)]
    ELSE IF y.info # EmptyDict
    THEN LET cats == YahooCategories(y.info)
         IN  [res EXCEPT
                 !.data_sources = Append(@, "Yahoo Finance"),
                 !.valuation_metrics = cats.valuation_metrics,
                 !.profitability_ratios = cats.profitability_ratios,
                 !.liquidity_ratios = cats.liquidity_ratios,
                 !.leverage_ratios = cats.leverage_ratios]
    ELSE res

\* lines 145-293: the value returned for the providers' answers
RatiosResult(ttm, annual, y) ==
    IF HasData(ttm) /\ IndexRaises(ttm.data)
    THEN CriticalError
    ELSE IF HasData(annual) /\ PayloadLen(annual.data) >= 2 /\ IndexRaises(annual.data)
    THEN CriticalError
    ELSE Finish(AfterFallback(AfterAnnual(AfterTTM(ttm), annual), y))

\* the step-by-step pass and the one-step pass return the same value
PassAgreesWithRatiosResult ==
    PassReturned =>
        analysis = RatiosResult(fmp_ratios_ttm,
                                IF fmp_ratios_annual = NoValue
                                THEN Failure("not fetched", "ratios")
                                ELSE fmp_ratios_annual,
                                yahoo)

(***************************************************************************)
(* perform_peer_comparison (agent.py:407-491),                             *)
(* _compare_metric_across_peers (agent.py:493-529) and                     *)
(* _generate_peer_ranking_insights (agent.py:531-570)                      *)
(***************************************************************************)
\* TSX_MAJOR_STOCKS (lines 27-36): the keys in dict order, and the sectors
TSX_MAJOR_STOCKS ==
    << [sym |-> "SHOP.TO",  sector |-> "Technology"],
       [sym |-> "TD.TO",    sector |-> "Financial Services"],
       [sym |-> "RY.TO",    sector |-> "Financial Services"],
       [sym |-> "CNR.TO",   sector |-> "Industrials"],
       [sym |-> "SU.TO",    sector |-> "Energy"],
       [sym |-> "WEED.TO",  sector |-> "Healthcare"],
       [sym |-> "AC.TO",    sector |-> "Industrials"],
       [sym |-> "BBD-B.TO", sector |-> "Industrials"] >>

TSXSymbols == { TSX_MAJOR_STOCKS[i].sym : i \in 1..Len(TSX_MAJOR_STOCKS) }

\* TSX_MAJOR_STOCKS[sym]["sector"]
SectorOf(sym) ==
    (CHOOSE e \in { TSX_MAJOR_STOCKS[i] : i \in 1..Len(TSX_MAJOR_STOCKS) } :
         e.sym = sym).sector

\* [f(e) for e in seq]
RECURSIVE SymsOf(_)
SymsOf(seq) == IF seq = <<>> THEN <<>> ELSE <<Head(seq).sym>> \o SymsOf(Tail(seq))

\* seq[:n]
Prefix(seq, n) == SubSeq(seq, 1, IF Len(seq) < n THEN Len(seq) ELSE n)

\* lines 437-440: the sector after auto-detection
DetectSector(sec, sym) ==
    IF sec = None /\ sym \in TSXSymbols THEN <<SectorOf(sym)>> ELSE sec

\* variant: the primary stock is not excluded from its sector's members
SectorPeers_WithSelf(sec, sym) ==
    IF sec = None THEN <<>>
    ELSE SymsOf(SelectSeq(TSX_MAJOR_STOCKS, LAMBDA e : e.sector = sec[1]))

\* lines 443-447: the other members of the sector, in table order
SectorPeers(sec, sym) ==
    IF sec = None THEN <<>>
    ELSE SymsOf(SelectSeq(TSX_MAJOR_STOCKS,
                          LAMBDA e : e.sector = sec[1] /\ e.sym # sym))

\* line 451: the first three major stocks other than the primary
DefaultPeers(sym) ==
    Prefix(SymsOf(SelectSeq(TSX_MAJOR_STOCKS, LAMBDA e : e.sym # sym)), 3)

\* lines 443-454
SelectPeers(sec, sym) ==
    IF SectorPeers(sec, sym) # <<>> THEN SectorPeers(sec, sym) ELSE DefaultPeers(sym)

\* line 458: peers[:3]
FetchedPeers(ps) == Prefix(ps, 3)

\* lines 467-473
metrics_to_compare ==
    << [key |-> "pe_ratio", name |-> "P/E Ratio"],
       [key |-> "pb_ratio", name |-> "P/B Ratio"],
       [key |-> "roe", name |-> "Return on Equity"],
       [key |-> "current_ratio", name |-> "Current Ratio"],
       [key |-> "debt_to_equity", name |-> "Debt-to-Equity"] >>

\* the categories searched at lines 498 and 508
CompareCategories ==
    <<"valuation_metrics", "profitability_ratios", "liquidity_ratios", "leverage_ratios">>

\* lines 498-501 / 508-513: the metric of the first category that holds its key
LookupMetric(an, key) ==
    LET cs == SelectSeq(CompareCategories,
                        LAMBDA c : c \in DOMAIN an /\ key \in DOMAIN an[c])
    IN  IF cs = <<>> THEN None ELSE an[cs[1]][key]

\* variant: a peer without the metric contributes the value 0
PeerValues_MissingAsZero(pdata, key) ==
    [ p \in DOMAIN pdata |->
          IF LookupMetric(pdata[p], key) # None THEN LookupMetric(pdata[p], key)[1]
          ELSE 0 ]

\* lines 506-513: peer symbol -> value, for the peers whose value is not None
PeerValues(pdata, key) ==
    [ p \in { q \in DOMAIN pdata : LookupMetric(pdata[q], key) # None } |->
          LookupMetric(pdata[p], key)[1] ]

\* list(d.values()) for a dict filled in the order of the sequence order
RECURSIVE ValuesInOrder(_, _)
ValuesInOrder(d, order) ==
    IF order = <<>> THEN <<>>
    ELSE (IF Head(order) \in DOMAIN d THEN <<d[Head(order)]>> ELSE <<>>)
         \o ValuesInOrder(d, Tail(order))

RECURSIVE SumSeq(_)
SumSeq(seq) == IF seq = <<>> THEN 0 ELSE Head(seq) + SumSeq(Tail(seq))

\* variant: values equal to the primary value are counted too
CountBelow_OrEqual(seq, x) == Len(SelectSeq(seq, LAMBDA v : v <= x))

\* line 528: sum(1 for v in all_values if v < primary_value)
CountBelow(seq, x) == Len(SelectSeq(seq, LAMBDA v : v < x))

\* the integer nearest to a / b (b > 0)
RoundDiv(a, b) == (2 * a + b) \div (2 * b)

\* variant: the proportion is taken over the peer values alone
Percentile_OverPeers(all_values, x) ==
    RoundDiv(1000 * CountBelow(all_values, x), Len(all_values) - 1)

\* line 528: round((count / len(all_values)) * 100, 1), in tenths
Percentile(all_values, x) ==
    RoundDiv(1000 * CountBelow(all_values, x), Len(all_values))

\* variant: a tie with the peer mean counts as above average
AboveAverage_OrEqual(primary_value, vals) ==
    primary_value * Len(vals) >= SumSeq(vals)

\* line 527: primary_value > peer_avg, with peer_avg = np.mean(vals)
AboveAverage(primary_value, vals) ==
    primary_value * Len(vals) > SumSeq(vals)

\* _compare_metric_across_peers: None, or the comparison dict.  peer_average
\* is in thousandths (round(peer_avg, 3)), percentile in tenths (round(.., 1)).
_compare_metric_across_peers(pa, pdata, order, m) ==
    LET primary_value == LookupMetric(pa, m.key)
        peer_values   == PeerValues(pdata, m.key)
    IN  IF primary_value = None \/ DOMAIN peer_values = {}
        THEN None
        ELSE LET vals       == ValuesInOrder(peer_values, order)
                 all_values == Append(vals, primary_value[1])
             IN  << [ metric_name   |-> m.name,
                      primary_value |-> primary_value[1],
                      peer_average  |-> RoundDiv(SumSeq(vals), Len(vals)),
                      peer_values   |-> peer_values,
                      vs_peers      |-> IF AboveAverage(primary_value[1], vals)
                                        THEN "Above Average" ELSE "Below Average",
                      percentile    |-> Percentile(all_values, primary_value[1]) ] >>

\* lines 475-480: result["peer_comparison"]
PeerComparison(pa, pdata, order) ==
    LET keys == { metrics_to_compare[i].key : i \in 1..Len(metrics_to_compare) }
        cmp(k) == _compare_metric_across_peers(
                      pa, pdata, order,
                      CHOOSE m \in { metrics_to_compare[i] :
                                        i \in 1..Len(metrics_to_compare) } : m.key = k)
    IN  [ k \in { x \in keys : cmp(x) # None } |-> cmp(k)[1] ]

\* number of metrics classified "Above Average"
AboveCount(cmps) ==
    Cardinality({ k \in DOMAIN cmps : cmps[k].vs_peers = "Above Average" })

\* _generate_peer_ranking_insights, the texts shortened to tags
_generate_peer_ranking_insights(insights, cmps) ==
    IF DOMAIN cmps = {}
    THEN Append(insights, "Limited peer comparison data available")
    ELSE LET above == AboveCount(cmps)
             total == Cardinality(DOMAIN cmps)
             rank  == IF 10 * above >= 7 * total THEN "Strong Peer Performance"
                      ELSE IF 10 * above >= 4 * total THEN "Mixed Peer Performance"
                      ELSE "Below Peer Average"
             pe    == IF "pe_ratio" \in DOMAIN cmps
                         /\ cmps["pe_ratio"].vs_peers = "Below Average"
                      THEN <<"Lower P/E than peers">> ELSE <<>>
             roe   == IF "roe" \in DOMAIN cmps
                         /\ cmps["roe"].vs_peers = "Above Average"
                      THEN <<"Higher ROE than peers">> ELSE <<>>
         IN  Append(insights, rank) \o pe \o roe

(***************************************************************************)
(* The state machine of perform_peer_comparison and                        *)
(* generate_comprehensive_report (agent.py:785-866): every call of         *)
(* calculate_financial_ratios is one step, RatiosResult of what the        *)
(* providers answer to that call.                                          *)
(***************************************************************************)
\* the normalised symbols a client asks about: three of the table, one not
ClientSymbols == {"SHOP.TO", "TD.TO", "CNR.TO", "ABC.TO"}

\* the sector argument: absent, a sector of the table, a sector not in it
ClientSectors == {None, <<"Industrials">>, <<"Utilities">>}

\* ratios-ttm records of the stocks compared
Rec10 == [priceEarningsRatio |-> <<10000>>, returnOnEquity |-> <<100>>,
          currentRatio |-> <<1000>>, debtEquityRatio |-> <<500>>]
Rec20 == [priceEarningsRatio |-> <<20000>>, priceToBookRatio |-> <<2000>>,
          returnOnEquity |-> <<200>>, currentRatio |-> <<2000>>,
          debtEquityRatio |-> <<1000>>]
Rec25 == [priceEarningsRatio |-> <<25000>>, priceToBookRatio |-> <<2000>>,
          returnOnEquity |-> <<150>>, currentRatio |-> <<800>>,
          debtEquityRatio |-> <<0>>]
Rec30 == [priceEarningsRatio |-> <<30000>>, priceToBookRatio |-> <<4000>>,
          returnOnEquity |-> <<120>>, debtEquityRatio |-> <<1500>>]

\* what the three providers answer to one call of calculate_financial_ratios
FMPAnswers(rec) ==
    [ttm |-> Success(JsonList(<<rec>>)), annual |-> Failure("FMP API Error", "ratios"),
     y |-> [outcome |-> "not_consulted"]]
YahooAnswers(info) ==
    [ttm    |-> Failure("FMP API request failed after max_retries attempts", "ratios-ttm"),
     annual |-> Failure("FMP API request failed after max_retries attempts", "ratios"),
     y      |-> [outcome |-> "info", info |-> info]]
AllFailRaised ==
    [ttm    |-> Failure("FMP API request failed after max_retries attempts", "ratios-ttm"),
     annual |-> Failure("FMP API request failed after max_retries attempts", "ratios"),
     y      |-> [outcome |-> "raised"]]
AllFailEmpty ==
    [ttm    |-> Failure("Empty response from FMP API", "ratios-ttm"),
     annual |-> Failure("Empty response from FMP API", "ratios"),
     y      |-> [outcome |-> "info", info |-> EmptyDict]]
MalformedTTM ==
    [ttm |-> Success(JsonObject(1)), annual |-> Failure("FMP API Error", "ratios"),
     y |-> [outcome |-> "not_consulted"]]

PrimaryAnswers ==
    { FMPAnswers(Rec25), FMPAnswers(Rec20), YahooAnswers(InfoScenario),
      AllFailRaised, AllFailEmpty, MalformedTTM }
PeerAnswers ==
    { FMPAnswers(Rec10), FMPAnswers(Rec20), FMPAnswers(Rec30),
      AllFailRaised, AllFailEmpty, MalformedTTM }

\* calculate_financial_ratios on the answers a
RatiosOf(a) == RatiosResult(a.ttm, a.annual, a.y)

\* no provider gave anything to the call answered by a
ProvidersFailed(a) ==
    /\ ~HasData(a.ttm) /\ ~HasData(a.annual)
    /\ a.y.outcome = "raised" \/ (a.y.outcome = "info" /\ a.y.info = EmptyDict)

\* the record of one call of calculate_financial_ratios
CallEvent(by, sym, a) ==
    [ev |-> "ratios", by |-> by, sym |-> sym, providers_failed |-> ProvidersFailed(a),
     returned_error |-> "error" \in DOMAIN RatiosOf(a)]

\* d[k] = v
Put(d, k, v) == [x \in DOMAIN d \cup {k} |-> IF x = k THEN v ELSE d[x]]

\* a client calls perform_peer_comparison(sym, sec): lines 418-429
CallPeers ==
    /\ pc = "idle"
    /\ \E sym \in ClientSymbols, sec \in ClientSectors :
         /\ symbol' = sym
         /\ sector' = sec
    /\ op' = "perform_peer_comparison"
    /\ pc' = "peer_primary"
    /\ UNCHANGED <<fetchVars, passVars, health, primary_analysis, peers, peer_idx,
                   peer_data, peer_log, comparison, report>>

\* lines 431-454: the primary stock's ratios, the sector and the peer list
PeerPrimary ==
    /\ pc = "peer_primary"
    /\ \E a \in PrimaryAnswers :
         /\ peer_log' = Append(peer_log, CallEvent("primary", symbol, a))
         /\ IF "error" \in DOMAIN RatiosOf(a)
            THEN /\ comparison' = [error |-> "Could not analyze primary stock"]
                 /\ pc' = "peers_returned"
                 /\ UNCHANGED <<sector, primary_analysis, peers>>
            ELSE /\ primary_analysis' = RatiosOf(a)
                 /\ sector' = DetectSector(sector, symbol)
                 /\ peers' = SelectPeers(DetectSector(sector, symbol), symbol)
                 /\ pc' = "peer_loop"
                 /\ UNCHANGED comparison
    /\ peer_idx' = 0
    /\ peer_data' = EmptyDict
    /\ UNCHANGED <<op, fetchVars, passVars, health, symbol, report>>

\* lines 462-464: time.sleep(1) only after a peer that was analysed
PeerPause(pa) == IF "error" \notin DOMAIN pa THEN << [ev |-> "sleep", secs |-> 1] >> ELSE <<>>

\* lines 462-463: peer_data[peer] = peer_analysis unless it holds "error"
KeepPeer(pdata, peer, pa) ==
    IF "error" \notin DOMAIN pa THEN Put(pdata, peer, pa) ELSE pdata

\* one iteration of the loop of lines 458-464
PeerFetch ==
    /\ pc = "peer_loop"
    /\ peer_idx < Len(FetchedPeers(peers))
    /\ \E a \in PeerAnswers :
         LET peer == FetchedPeers(peers)[peer_idx + 1]
         IN  /\ peer_data' = KeepPeer(peer_data, peer, RatiosOf(a))
             /\ peer_log' = Append(peer_log, CallEvent("peer", peer, a))
                                \o PeerPause(RatiosOf(a))
    /\ peer_idx' = peer_idx + 1
    /\ UNCHANGED <<op, pc, fetchVars, passVars, health, symbol, sector,
                   primary_analysis, peers, comparison, report>>

\* lines 466-485: the comparisons, the insights, the returned dict
PeerCompare ==
    /\ pc = "peer_loop"
    /\ peer_idx = Len(FetchedPeers(peers))
    /\ LET cmps == PeerComparison(primary_analysis, peer_data, FetchedPeers(peers))
           dflt == IF SectorPeers(sector, symbol) = <<>>
                   THEN <<"Using major TSX stocks for comparison">> ELSE <<>>
       IN  comparison' =
               [ primary_stock        |-> symbol,
                 sector               |-> sector,
                 peer_comparison      |-> cmps,
                 ranking              |-> EmptyDict,
                 educational_insights |-> _generate_peer_ranking_insights(dflt, cmps),
                 errors               |-> <<>> ]
    /\ pc' = "peers_returned"
    /\ UNCHANGED <<op, fetchVars, passVars, health, symbol, sector, primary_analysis,
                   peers, peer_idx, peer_data, peer_log, report>>

\* lines 797-810: the report before any analysis (name, timestamp and the
\* fixed educational notes are left out)
NewReport(sym) ==
    [ symbol            |-> sym,
      executive_summary |-> EmptyDict,
      detailed_analysis |-> EmptyDict,
      peer_comparison   |-> EmptyDict,
      health_score      |-> EmptyDict,
      recommendations   |-> <<>>,
      risk_factors      |-> <<>>,
      data_quality      |-> EmptyDict,
      errors            |-> <<>> ]

\* report["errors"].append(f"{stage}: {res['error']}")
StageError(stage, res) == [stage |-> stage, error |-> res.error]

\* lines 818-823, 829-834, 842-847: store the stage's result and flag it
\* available, or append its error and flag it unavailable
StageDone(rep, res, stage, flag, slot, key) ==
    IF "error" \notin DOMAIN res
    THEN [rep EXCEPT ![slot] = IF key = None THEN res ELSE Put(@, key[1], res),
                     !.data_quality = Put(@, flag, TRUE)]
    ELSE [rep EXCEPT !.errors = Append(@, StageError(stage, res)),
                     !.data_quality = Put(@, flag, FALSE)]

\* _generate_executive_summary (lines 868-914)
_generate_executive_summary(rep) ==
    LET hd == rep.health_score
        scored == "health_score" \in DOMAIN hd
        rd == Get(rep.detailed_analysis, "financial_ratios")
        pe == IF rd = None THEN None ELSE Get(rd.valuation_metrics, "pe_ratio")
        roe == IF rd = None THEN None ELSE Get(rd.profitability_ratios, "roe")
        pd == rep.peer_comparison
        s1 == IF scored
              THEN Put(EmptyDict, "financial_health", <<hd.health_score, hd.health_grade>>)
              ELSE EmptyDict
        s2 == IF Truthy(pe) THEN Put(s1, "valuation", RoundDiv(pe[1], 100)) ELSE s1
        s3 == IF Truthy(roe)
              THEN Put(s2, "profitability",
                       RoundDiv(IF roe[1] < 1000 THEN roe[1] * 100 ELSE roe[1], 100))
              ELSE s2
        s4 == IF "peer_comparison" \in DOMAIN pd
              THEN Put(s3, "peer_ranking",
                       <<AboveCount(pd.peer_comparison),
                         Cardinality(DOMAIN pd.peer_comparison)>>)
              ELSE s3
    IN  IF scored
        THEN Put(s4, "investment_thesis",
                 IF hd.health_score >= 70 THEN "Strong fundamentals"
                 ELSE IF hd.health_score >= 50 THEN "Mixed fundamentals"
                 ELSE "Weak fundamentals")
        ELSE s4

\* _generate_investment_recommendations (lines 1015-1080): the two lists,
\* the texts shortened to tags
InvestmentAdvice(rep) ==
    LET hd == rep.health_score
        rd == Get(rep.detailed_analysis, "financial_ratios")
        pe == IF rd = None THEN None ELSE Get(rd.valuation_metrics, "pe_ratio")
        pd == rep.peer_comparison
        peered == "peer_comparison" \in DOMAIN pd
        above == IF peered THEN AboveCount(pd.peer_comparison) ELSE 0
        total == IF peered THEN Cardinality(DOMAIN pd.peer_comparison) ELSE 0
        sec == IF rep.symbol \in TSXSymbols THEN SectorOf(rep.symbol) ELSE "none"
        byScore == IF "health_score" \notin DOMAIN hd THEN <<>>
                   ELSE IF hd.health_score >= 80 THEN <<"POSITIVE", "core portfolio">>
                   ELSE IF hd.health_score >= 70 THEN <<"NEUTRAL", "balanced portfolios">>
                   ELSE IF hd.health_score >= 50 THEN <<"CAUTION", "smaller positions">>
                   ELSE <<"NEGATIVE", "speculative only">>
        lowPe == IF Truthy(pe) /\ ~(pe[1] > 30000) /\ pe[1] < 10000
                 THEN <<"Potential value opportunity">> ELSE <<>>
        highPe == IF Truthy(pe) /\ pe[1] > 30000 THEN <<"High valuation risk">> ELSE <<>>
        leader == IF peered /\ 10 * above >= 7 * total THEN <<"Sector leader">> ELSE <<>>
        laggard == IF peered /\ ~(10 * above >= 7 * total) /\ 10 * above < 3 * total
                   THEN <<"Sector laggard">> ELSE <<>>
        secRec == IF sec = "Financial Services" THEN <<"Banking sector">>
                  ELSE IF sec = "Energy" THEN <<"Energy sector">>
                  ELSE IF sec = "Technology" THEN <<"Tech sector">> ELSE <<>>
        secRisk == IF sec = "Financial Services" THEN <<"Interest rate sensitivity">>
                   ELSE IF sec = "Energy" THEN <<"Oil price volatility">>
                   ELSE IF sec = "Technology" THEN <<"Currency exposure">> ELSE <<>>
    IN  [ recommendations |-> byScore \o lowPe \o leader \o secRec,
          risk_factors    |-> highPe \o laggard \o secRisk ]

\* lines 849-858: summary, recommendations and the report returned
FinishReport(rep) ==
    [rep EXCEPT !.executive_summary = _generate_executive_summary(rep),
                !.recommendations = InvestmentAdvice(rep).recommendations,
                !.risk_factors = InvestmentAdvice(rep).risk_factors]

\* a client calls generate_comprehensive_report(sym): lines 795-810
CallReport ==
    /\ pc = "idle"
    /\ \E sym \in ClientSymbols :
         /\ symbol' = sym
         /\ report' = NewReport(sym)
    /\ op' = "generate_comprehensive_report"
    /\ pc' = "report_ratios"
    /\ UNCHANGED <<fetchVars, passVars, health, sector, primary_analysis, peers,
                   peer_idx, peer_data, peer_log, comparison>>

\* lines 814-823: the financial ratios stage
ReportRatios ==
    /\ pc = "report_ratios"
    /\ \E a \in PrimaryAnswers :
         /\ analysis' = RatiosOf(a)
         /\ peer_log' = Append(peer_log, CallEvent("ratios", symbol, a))
         /\ report' = StageDone(report, RatiosOf(a), "Ratios analysis",
                                "ratios_available", "detailed_analysis",
                                <<"financial_ratios">>)
    /\ pc' = "report_health"
    /\ UNCHANGED <<op, fetchVars, fmp_ratios_ttm, fmp_ratios_annual, result, yahoo,
                   prov, health, symbol, sector, primary_analysis, peers, peer_idx,
                   peer_data, comparison>>

\* lines 826-838: the health score stage, which calculates the ratios anew,
\* and the test whether the symbol is a major stock
ReportHealth ==
    /\ pc = "report_health"
    /\ \E a \in PrimaryAnswers :
         /\ health' = HealthOf(RatiosOf(a))
         /\ peer_log' = Append(peer_log, CallEvent("health", symbol, a))
         /\ report' = StageDone(report, HealthOf(RatiosOf(a)), "Health score",
                                "health_score_available", "health_score", None)
    /\ IF symbol \in TSXSymbols
       THEN /\ sector' = <<SectorOf(symbol)>>
            /\ pc' = "peer_primary"
       ELSE /\ pc' = "report_finish"
            /\ UNCHANGED sector
    /\ UNCHANGED <<op, fetchVars, passVars, symbol, primary_analysis, peers, peer_idx,
                   peer_data, comparison>>

\* lines 840-858: the peer comparison stored, the summaries, the return
ReportFinish ==
    /\ op = "generate_comprehensive_report"
    /\ pc \in {"peers_returned", "report_finish"}
    /\ report' = FinishReport(
                     IF pc = "peers_returned"
                     THEN StageDone(report, comparison, "Peer comparison",
                                    "peer_comparison_available", "peer_comparison", None)
                     ELSE report)
    /\ pc' = "report_returned"
    /\ UNCHANGED <<op, fetchVars, passVars, health, peerVars>>

NextReport ==
    \/ CallPeers
    \/ CallReport
    \/ ReportRatios
    \/ ReportHealth
    \/ PeerPrimary
    \/ PeerFetch
    \/ PeerCompare
    \/ ReportFinish

SpecReport == Init /\ [][NextReport]_vars

(***************************************************************************)
(* Properties of the peer comparison and of the report                     *)
(***************************************************************************)
\* perform_peer_comparison has returned its result dict (not an error dict)
PeersCompared ==
    /\ pc \in {"peers_returned", "report_returned"}
    /\ "peer_comparison" \in DOMAIN comparison

\* the comparisons of the returned result
Compared == comparison.peer_comparison

\* the calls of calculate_financial_ratios made for the peers, in order
PeerCalls == SelectSeq(peer_log, LAMBDA e : e.ev = "ratios" /\ e.by = "peer")

\* t is a / b rounded to the nearest integer (b > 0)
IsRounded(t, a, b) == 2 * (t * b - a) <= b /\ 2 * (a - t * b) <= b

\* the sum of f over the finite set S
RECURSIVE SumOver(_, _)
SumOver(f, S) ==
    IF S = {} THEN 0 ELSE LET x == CHOOSE y \in S : TRUE IN f[x] + SumOver(f, S \ {x})

\* C14: for every compared metric the percentile is 100 times the proportion,
\* rounded to one decimal, of the combined values (every peer value plus the
\* primary value) that are strictly less than the primary value; values equal
\* to the primary value are not counted.
C14_PercentileStrictlyLess ==
    PeersCompared =>
        \A k \in DOMAIN Compared :
            LET c    == Compared[k]
                less == Cardinality({ p \in DOMAIN c.peer_values :
                                          c.peer_values[p] < c.primary_value })
            IN  IsRounded(c.percentile, 1000 * less,
                          Cardinality(DOMAIN c.peer_values) + 1)

\* a comparison in which one peer ties with the primary and another is below it
C14_Witness ==
    /\ PeersCompared
    /\ \E k \in DOMAIN Compared :
         /\ \E p \in DOMAIN Compared[k].peer_values :
                Compared[k].peer_values[p] = Compared[k].primary_value
         /\ \E p \in DOMAIN Compared[k].peer_values :
                Compared[k].peer_values[p] < Compared[k].primary_value
         /\ Cardinality(DOMAIN Compared[k].peer_values) = 3
         /\ Compared[k].percentile = 250

\* the P/E comparison of a primary at 25 with three peers at 10, 20 and 30
PeerExample ==
    /\ PeersCompared
    /\ "pe_ratio" \in DOMAIN Compared
    /\ Compared["pe_ratio"].primary_value = 25000
    /\ Cardinality(DOMAIN Compared["pe_ratio"].peer_values) = 3
    /\ { Compared["pe_ratio"].peer_values[p] :
             p \in DOMAIN Compared["pe_ratio"].peer_values } = {10000, 20000, 30000}

\* C15 as stated: with peer values {10, 20, 30} and primary value 25 the
\* primary is classified Above Average (peer mean 20) and the percentile is 75.
C15_PercentileSeventyFive ==
    PeerExample =>
        /\ Compared["pe_ratio"].vs_peers = "Above Average"
        /\ Compared["pe_ratio"].peer_average = 20000
        /\ Compared["pe_ratio"].percentile = 750

\* C15 amended: with peer values {10, 20, 30} and primary value 25 the primary
\* is classified Above Average (peer mean 20) and the percentile is 50: two of
\* the four combined values, 10 and 20, are strictly less than 25.
C15_PercentileFifty ==
    PeerExample =>
        /\ Compared["pe_ratio"].vs_peers = "Above Average"
        /\ Compared["pe_ratio"].peer_average = 20000
        /\ Compared["pe_ratio"].percentile = 500

C15_Witness ==
    /\ PeerExample
    /\ Compared["pe_ratio"].percentile = 500
    /\ Len(PeerCalls) = 3

\* the peers analysed that hold a non-null value of metric k
PeersWith(k) == { p \in DOMAIN peer_data : LookupMetric(peer_data[p], k) # None }

\* C16: for each compared metric present in the primary's ratios, the peer
\* mean is the arithmetic mean (to three decimals) over exactly the peers with
\* a non-null value of the metric, the metric is omitted when no peer has it,
\* and the classification is Above Average iff the primary value is strictly
\* greater than the peer mean, a tie being Below Average.
C16_PeerMeanAndClass ==
    PeersCompared =>
        \A i \in 1..Len(metrics_to_compare) :
            LET k  == metrics_to_compare[i].key
                pv == LookupMetric(primary_analysis, k)
            IN  pv # None =>
                  /\ k \in DOMAIN Compared <=> PeersWith(k) # {}
                  /\ k \in DOMAIN Compared =>
                       LET c == Compared[k]
                           n == Cardinality(PeersWith(k))
                           total == SumOver([p \in PeersWith(k) |->
                                                LookupMetric(peer_data[p], k)[1]],
                                            PeersWith(k))
                       IN  /\ DOMAIN c.peer_values = PeersWith(k)
                           /\ c.primary_value = pv[1]
                           /\ IsRounded(c.peer_average, total, n)
                           /\ c.vs_peers \in {"Above Average", "Below Average"}
                           /\ c.vs_peers = "Above Average" <=> pv[1] * n > total

\* a tie with the mean of two of three peers, the third lacking the metric
C16_Witness ==
    /\ PeersCompared
    /\ Cardinality(DOMAIN peer_data) = 3
    /\ "pb_ratio" \in DOMAIN Compared
    /\ Cardinality(DOMAIN Compared["pb_ratio"].peer_values) = 2
    /\ Compared["pb_ratio"].peer_average = Compared["pb_ratio"].primary_value
    /\ Compared["pb_ratio"].vs_peers = "Below Average"

\* perform_peer_comparison has analysed the primary stock and built its peer list
PeersChosen ==
    /\ pc \in {"peer_loop", "peers_returned", "report_returned"}
    /\ primary_analysis # NoValue

\* the elements of a sequence
Range(seq) == { seq[i] : i \in 1..Len(seq) }

\* the position of a symbol in the table of major stocks
TableIndex(s) == CHOOSE i \in 1..Len(TSX_MAJOR_STOCKS) : TSX_MAJOR_STOCKS[i].sym = s

\* the other major stocks of the resolved sector
CoMembers ==
    IF sector = None THEN {}
    ELSE { s \in TSXSymbols : SectorOf(s) = sector[1] } \ {symbol}

\* the first three major stocks of the table that are not the primary
DefaultSet ==
    { s \in TSXSymbols \ {symbol} :
          Cardinality({ t \in TSXSymbols \ {symbol} :
                            TableIndex(t) < TableIndex(s) }) < 3 }

\* C17: the peer list is the set of the other members of the primary's
\* resolved sector; when no sector is resolved or the sector has no other
\* member it is the default set (the first three major stocks other than the
\* primary); at most 3 peers are fetched, all of them of the peer list, and the
\* primary is never one of them.
C17_PeerList ==
    PeersChosen =>
        /\ symbol \in TSXSymbols => sector # None
        /\ Range(peers) = IF CoMembers # {} THEN CoMembers ELSE DefaultSet
        /\ Cardinality(Range(peers)) = Len(peers)
        /\ symbol \notin Range(peers)
        /\ Len(PeerCalls) <= 3
        /\ \A i \in 1..Len(PeerCalls) :
               /\ PeerCalls[i].sym \in Range(peers)
               /\ PeerCalls[i].sym # symbol
               /\ \A j \in 1..Len(PeerCalls) : PeerCalls[j].sym = PeerCalls[i].sym => j = i
        /\ PeersCompared =>
               Len(PeerCalls) = IF Len(peers) < 3 THEN Len(peers) ELSE 3

\* the two other Industrials stocks fetched as the peers of CNR.TO
C17_Witness ==
    /\ PeersCompared
    /\ symbol = "CNR.TO"
    /\ sector = <<"Industrials">>
    /\ Range(peers) = {"AC.TO", "BBD-B.TO"}
    /\ Len(PeerCalls) = 2

\* the call for a peer failed: it returned an error dict, or no provider
\* gave it anything
FailedCall(e) == e.returned_error \/ e.providers_failed

FailedPeers == { PeerCalls[i].sym : i \in { j \in 1..Len(PeerCalls) : FailedCall(PeerCalls[j]) } }

RemainingPeers == Range(SymsOf(PeerCalls)) \ FailedPeers

\* C18: if exactly one of three peers fails to fetch, the comparison is still
\* returned and, for every metric of the primary that a remaining peer
\* carries, it holds a comparison computed from exactly the remaining peers
\* that carry it; the failed peer contributes no value.
C18_PartialFailureIsolation ==
    (/\ pc \in {"peers_returned", "report_returned"}
     /\ Len(PeerCalls) = 3
     /\ Cardinality(FailedPeers) = 1)
    => /\ PeersCompared
       /\ RemainingPeers \subseteq DOMAIN peer_data
       /\ \A i \in 1..Len(metrics_to_compare) :
            LET k == metrics_to_compare[i].key
                carriers == { p \in RemainingPeers :
                                  LookupMetric(peer_data[p], k) # None }
                total == SumOver([p \in carriers |-> LookupMetric(peer_data[p], k)[1]],
                                 carriers)
            IN  (LookupMetric(primary_analysis, k) # None /\ carriers # {})
                => /\ k \in DOMAIN Compared
                   /\ DOMAIN Compared[k].peer_values = carriers
                   /\ \A p \in carriers :
                          Compared[k].peer_values[p] = LookupMetric(peer_data[p], k)[1]
                   /\ IsRounded(Compared[k].peer_average, total, Cardinality(carriers))
                   /\ FailedPeers \cap DOMAIN Compared[k].peer_values = {}

\* the second of three peers got nothing from any provider and the P/E ratio
\* is compared over the two others
C18_Witness ==
    /\ PeersCompared
    /\ Len(PeerCalls) = 3
    /\ Cardinality(FailedPeers) = 1
    /\ PeerCalls[2].providers_failed
    /\ "pe_ratio" \in DOMAIN Compared
    /\ DOMAIN Compared["pe_ratio"].peer_values = {PeerCalls[1].sym, PeerCalls[3].sym}

\* C19: when a peer fails to fetch during a peer comparison, the errors of the
\* returned comparison, and the errors of the report that holds it, are not
\* empty (they name the failed peer).
C19_FailedPeerReported ==
    (PeersCompared /\ FailedPeers # {})
    => /\ comparison.errors # <<>>
       /\ pc = "report_returned" => report.errors # <<>>

\* every provider failed for every call of calculate_financial_ratios made
AllProvidersFailed ==
    \A i \in 1..Len(peer_log) :
        peer_log[i].ev = "ratios" => peer_log[i].providers_failed

\* C20: generate_comprehensive_report returns a report and, when every
\* provider call failed for the primary symbol and for its peers, each of its
\* availability flags is false and its error list is not empty.
C20_AllStagesFail ==
    (pc = "report_returned" /\ AllProvidersFailed)
    => /\ "error" \notin DOMAIN report
       /\ {"ratios_available", "health_score_available"} \subseteq DOMAIN report.data_quality
       /\ \A f \in DOMAIN report.data_quality : report.data_quality[f] = FALSE
       /\ report.errors # <<>>

\* C21: every failure detail met while building a report appears in the
\* report's error list: each provider failure that the ratio aggregation of
\* the primary symbol recorded is found in report["errors"].
C21_ErrorsAggregated ==
    (/\ pc = "report_returned"
     /\ "error" \notin DOMAIN report
     /\ "error" \notin DOMAIN analysis)
    => \A i \in 1..Len(analysis.errors) :
           \E j \in 1..Len(report.errors) :
               report.errors[j].error = analysis.errors[i].detail

\* C25: in a returned report that carries both a ratio set and a health
\* score, the score breakdown is the score of that same ratio set, whatever
\* the providers answered during the run.
C25_ScoreOfCarriedRatios ==
    (/\ pc = "report_returned"
     /\ "error" \notin DOMAIN report
     /\ "financial_ratios" \in DOMAIN report.detailed_analysis
     /\ "score_breakdown" \in DOMAIN report.health_score)
    => report.health_score.score_breakdown =
           Scores(report.detailed_analysis["financial_ratios"])

\* C26: within one call of calculate_financial_ratios the annual endpoint is
\* fetched only after the ratios-ttm fetch yielded current-period ratios, and
\* once Yahoo Finance has been consulted the pass ends without another
\* provider call.
C26_ProvidersConsultedOnce ==
    InPass =>
        /\ endpoint = "ratios" => HasData(fmp_ratios_ttm)
        /\ yahoo.outcome # "not_consulted" => pc \in {"ratios_returned", "health_returned"}

\* C27: between every two consecutive peer fetches of perform_peer_comparison
\* a rate-limiting pause occurs, whether the earlier fetch succeeded or failed.
C27_PauseBetweenPeers ==
    \A i, j \in 1..Len(peer_log) :
        (/\ i < j
         /\ peer_log[i].ev = "ratios" /\ peer_log[i].by = "peer"
         /\ peer_log[j].ev = "ratios" /\ peer_log[j].by = "peer")
        => \E k \in (i + 1)..(j - 1) : peer_log[k].ev = "sleep"

\* C29: the efficiency subscore is the neutral 10 only when asset turnover is
\* absent; a value that is present, the value 0 included, is scored by its
\* band: 20 from 1.0, 15 from 0.75, 10 from 0.5, and 5 below.
C29_ZeroTurnoverScored ==
    (ScoreReturned /\ "error" \notin DOMAIN analysis)
    => LET at == Get(analysis.efficiency_ratios, "asset_turnover")
       IN  health.score_breakdown.efficiency =
               IF at = None THEN 10
               ELSE IF at[1] >= 1000 THEN 20
               ELSE IF at[1] >= 750 THEN 15
               ELSE IF at[1] >= 500 THEN 10 ELSE 5

(***************************************************************************)
(* Symbol normalisation: normalize_canadian_symbol (agent.py:106-133) and  *)
(* the inline normalisations of calculate_basic_ratios                     *)
(* (financial_analysis_agent/tools.py:25-29), collect_tsx_data             *)
(* (data_collection_agent/tools.py:25-30) and                              *)
(* fetch_comprehensive_stock_data (data_collection_agent/agent.py:96-102). *)
(* A Python string is the sequence of its characters.                      *)
(***************************************************************************)
\* the longest symbol a client passes
MaxSymLen == 5

\* the characters of the symbols: letters in both cases, the dot, the blank
Alphabet == {"t", "T", "o", "O", "r", "R", ".", " "}

\* every string of at most MaxSymLen characters
SymbolInputs == UNION { [1..n -> Alphabet] : n \in 0..MaxSymLen }

TO  == <<".", "T", "O">>             \* '.TO'
TRT == <<".", "T", "R", "T">>        \* '.TRT'

\* str.upper() on one character
UpperChar(c) ==
    CASE c = "t" -> "T" [] c = "o" -> "O" [] c = "r" -> "R" [] OTHER -> c

\* str.upper()
upper(str) == [i \in 1..Len(str) |-> UpperChar(str[i])]

IsSpace(c) == c = " "

RECURSIVE lstrip(_)
lstrip(str) ==
    IF str # <<>> /\ IsSpace(Head(str)) THEN lstrip(Tail(str)) ELSE str

RECURSIVE rstrip(_)
rstrip(str) ==
    IF str # <<>> /\ IsSpace(str[Len(str)])
    THEN rstrip(SubSeq(str, 1, Len(str) - 1)) ELSE str

\* variant: only the leading whitespace is removed
strip_LeftOnly(str) == lstrip(str)

\* str.strip()
strip(str) == rstrip(lstrip(str))

\* str.endswith(suffix)
endswith(str, suffix) ==
    /\ Len(str) >= Len(suffix)
    /\ SubSeq(str, Len(str) - Len(suffix) + 1, Len(str)) = suffix

\* str[:-n]
DropLast(str, n) == SubSeq(str, 1, Len(str) - n)

\* str.startswith(prefix)
startswith(str, prefix) ==
    Len(str) >= Len(prefix) /\ SubSeq(str, 1, Len(prefix)) = prefix

\* str.replace(old, new): every occurrence, from the left, without overlap
RECURSIVE replace(_, _, _)
replace(str, old, new) ==
    IF str = <<>> THEN <<>>
    ELSE IF startswith(str, old)
    THEN new \o replace(SubSeq(str, Len(old) + 1, Len(str)), old, new)
    ELSE <<Head(str)>> \o replace(Tail(str), old, new)

\* variant: the '.TRT' branch cuts three characters, as the '.TO' branch does
normalize_canadian_symbol_ShortCut(sym) ==
    LET s == strip(upper(sym))
    IN  IF endswith(s, TO)
        THEN [yahoo_symbol |-> s, fmp_symbol |-> DropLast(s, 3) \o TRT]
        ELSE IF endswith(s, TRT)
        THEN [yahoo_symbol |-> DropLast(s, 3) \o TO, fmp_symbol |-> s]
        ELSE [yahoo_symbol |-> s \o TO, fmp_symbol |-> s \o TRT]

\* normalize_canadian_symbol: the pair (yahoo_symbol, fmp_symbol)
normalize_canadian_symbol(sym) ==
    LET s == strip(upper(sym))
    IN  IF endswith(s, TO)
        THEN [yahoo_symbol |-> s, fmp_symbol |-> DropLast(s, 3) \o TRT]
        ELSE IF endswith(s, TRT)
        THEN [yahoo_symbol |-> DropLast(s, 4) \o TO, fmp_symbol |-> s]
        ELSE [yahoo_symbol |-> s \o TO, fmp_symbol |-> s \o TRT]

\* tools.py:25-29 and tools.py:25-30: no upper(), no strip(), no '.TRT' branch
InlineToolsSymbol(sym) ==
    LET s == IF ~endswith(sym, TO) THEN sym \o TO ELSE sym
    IN  [yahoo_symbol |-> s, fmp_symbol |-> replace(s, TO, TRT)]

\* data_collection_agent/agent.py:96-102: upper(), no strip(), no '.TRT' branch
InlineComprehensiveSymbol(sym) ==
    LET u == upper(sym)
        s == IF ~endswith(u, TO) THEN u \o TO ELSE u
    IN  [yahoo_symbol |-> s, fmp_symbol |-> replace(s, TO, TRT)]

\* a client holds a symbol string and has not called anything yet
InitSymbol ==
    /\ op = "none"
    /\ pc = "idle"
    /\ endpoint = "none"
    /\ max_retries = 0
    /\ attempt = 0
    /\ resps = <<>>
    /\ sleeps = <<>>
    /\ fetch_ret = NoValue
    /\ fmp_ratios_ttm = NoValue
    /\ fmp_ratios_annual = NoValue
    /\ result = NoValue
    /\ yahoo = [outcome |-> "not_consulted"]
    /\ prov = NoProvenance
    /\ analysis = NoValue
    /\ health = NoValue
    /\ symbol \in SymbolInputs
    /\ sector = None
    /\ primary_analysis = NoValue
    /\ peers = <<>>
    /\ peer_idx = 0
    /\ peer_data = EmptyDict
    /\ peer_log = <<>>
    /\ comparison = NoValue
    /\ report = NoValue

\* the client calls normalize_canadian_symbol(symbol)
Normalize ==
    /\ pc = "idle"
    /\ op' = "normalize_canadian_symbol"
    /\ result' = normalize_canadian_symbol(symbol)
    /\ pc' = "symbol_returned"
    /\ UNCHANGED <<fetchVars, fmp_ratios_ttm, fmp_ratios_annual, yahoo, prov, analysis,
                   health, peerVars, report>>

SpecSymbol == InitSymbol /\ [][Normalize]_vars

SymbolReturned == op = "normalize_canadian_symbol" /\ pc = "symbol_returned"

\* a base ticker: a non-empty string of capital letters
IsBase(b) == b # <<>> /\ \A i \in 1..Len(b) : b[i] \in {"T", "O", "R"}

\* str is a base ticker followed by suffix
IsWireForm(str, suffix) ==
    /\ Len(str) > Len(suffix)
    /\ SubSeq(str, Len(str) - Len(suffix) + 1, Len(str)) = suffix
    /\ IsBase(SubSeq(str, 1, Len(str) - Len(suffix)))

\* C23: for a well-formed symbol in a provider's wire form (base + '.TO' for
\* Yahoo, base + '.TRT' for FMP) normalize_canadian_symbol returns the symbol
\* unchanged as that provider's form, and normalising either returned form
\* again returns the same pair.
C23_RoundTrip ==
    SymbolReturned =>
        /\ IsWireForm(symbol, TO) => result.yahoo_symbol = symbol
        /\ IsWireForm(symbol, TRT) => result.fmp_symbol = symbol
        /\ (IsWireForm(symbol, TO) \/ IsWireForm(symbol, TRT)) =>
              /\ normalize_canadian_symbol(result.yahoo_symbol) = result
              /\ normalize_canadian_symbol(result.fmp_symbol) = result

\* T.TRT normalised to the pair (T.TO, T.TRT)
C23_Witness ==
    /\ SymbolReturned
    /\ symbol = <<"T">> \o TRT
    /\ result = [yahoo_symbol |-> <<"T">> \o TO, fmp_symbol |-> <<"T">> \o TRT]

\* the same letter in the other case
FlipCase(c) ==
    CASE c = "t" -> "T" [] c = "T" -> "t" [] c = "o" -> "O" [] c = "O" -> "o"
      [] c = "r" -> "R" [] c = "R" -> "r" [] OTHER -> c

\* C24: normalize_canadian_symbol is total, case-insensitive and
\* whitespace-trimming: every input yields a pair (base + '.TO', base + '.TRT')
\* with one base; changing the case of a letter or adding a surrounding blank
\* yields the same pair; an input without a known suffix gets '.TO' (and
\* '.TRT') appended to its trimmed upper-case form.
C24_TotalCaseAndTrim ==
    SymbolReturned =>
        /\ Len(result.yahoo_symbol) >= 3
        /\ LET base == SubSeq(result.yahoo_symbol, 1, Len(result.yahoo_symbol) - 3)
           IN  /\ result.yahoo_symbol = base \o TO
               /\ result.fmp_symbol = base \o TRT
        /\ \A i \in 1..Len(symbol) :
               normalize_canadian_symbol([symbol EXCEPT ![i] = FlipCase(@)]) = result
        /\ normalize_canadian_symbol(<<" ">> \o symbol) = result
        /\ normalize_canadian_symbol(symbol \o <<" ">>) = result
        /\ LET s == strip(upper(symbol))
           IN  (~endswith(s, TO) /\ ~endswith(s, TRT)) =>
                   result = [yahoo_symbol |-> s \o TO, fmp_symbol |-> s \o TRT]

\* " t.to", in lower case after a leading blank, gives (T.TO, T.TRT)
C24_Witness ==
    /\ SymbolReturned
    /\ symbol = <<" ", "t", ".", "t", "o">>
    /\ result = [yahoo_symbol |-> <<"T">> \o TO, fmp_symbol |-> <<"T">> \o TRT]

(***************************************************************************)
(* fetch_fmp_data and fetch_comprehensive_stock_data                       *)
(* (data_collection_agent/agent.py:48-227).  Prices are in thousandths of  *)
(* a dollar, percentages in hundredths of a percent.                       *)
(***************************************************************************)
\* the body FMP sends instead of an array: {"Error Message": "..."}
ErrorObject == JsonObject(1)

\* a body that is not JSON
InvalidJson == [shape |-> "invalid"]

\* what requests.get does: raise, or return a response
HttpRaised == [kind |-> "exception"]
HttpResponse(status, body) == [kind |-> "response", status |-> status, body |-> body]

\* fetch_fmp_data (lines 48-85) on the outcome r of requests.get
fetch_fmp_data(r, ep) ==
    IF r.kind = "exception" \/ r.status >= 400
    THEN Failure("FMP API request failed", ep)
    ELSE IF r.body = InvalidJson
    THEN Failure("Invalid JSON response from FMP", ep)
    ELSE IF ~PayloadTruthy(r.body)
    THEN Failure("No data returned from FMP API", ep)
    ELSE Success(r.body)

\* lines 104-113: the result dict before any source is asked
NewStockResult(tsx_symbol) ==
    [ symbol            |-> tsx_symbol,
      data_sources      |-> <<>>,
      market_data       |-> EmptyDict,
      alerts            |-> <<>>,
      educational_notes |-> <<>>,
      errors            |-> <<>> ]

\* lines 122-132: the market data read from the FMP quote, each with default 0
\* (of the nine fields, the five that the function reads again)
MarketDataFMP(quote_data) ==
    [ current_price  |-> GetOr0(quote_data, "price"),
      change_percent |-> GetOr0(quote_data, "changesPercentage"),
      volume         |-> GetOr0(quote_data, "volume"),
      year_high      |-> GetOr0(quote_data, "yearHigh"),
      year_low       |-> GetOr0(quote_data, "yearLow") ]

\* lines 119-134
AfterQuote(res, fmp_quote) ==
    IF HasData(fmp_quote)
    THEN [res EXCEPT !.data_sources = Append(@, "FMP"),
                     !.market_data = MarketDataFMP(fmp_quote.data.items[1])]
    ELSE [res EXCEPT !.errors = Append(@, [source |-> "FMP data unavailable",
                                           detail |-> fmp_quote.error])]

\* round(x, 2) of a value in thousandths
Round2(x) == 10 * RoundDiv(x, 10)

\* info.get('previousClose', current_price)
PrevClose(y) ==
    IF "previousClose" \in DOMAIN y.info THEN y.info["previousClose"]
    ELSE <<y.hist[1].Close>>

\* lines 145-148 raise inside the try of line 139: a null previousClose
YahooQuoteRaises(y) ==
    y.outcome = "raised" \/ (y.hist # <<>> /\ PrevClose(y) = None)

\* lines 145-161: the market data computed from the last row of the history
MarketDataYahoo(y) ==
    LET current_price == y.hist[1].Close
        prev_close    == PrevClose(y)[1]
        change        == current_price - prev_close
        change_percent == IF prev_close # 0
                          THEN (IF prev_close > 0 THEN RoundDiv(change * 10000, prev_close)
                                ELSE RoundDiv(-change * 10000, -prev_close))
                          ELSE 0
    IN  [ current_price  |-> <<Round2(current_price)>>,
          change_percent |-> <<change_percent>>,
          volume         |-> <<y.hist[1].Volume>>,
          year_high      |-> GetOr0(y.info, "fiftyTwoWeekHigh"),
          year_low       |-> GetOr0(y.info, "fiftyTwoWeekLow") ]

\* lines 136-171: the fallback to Yahoo Finance, asked only without market data
AfterYahooQuote(res, y) ==
    IF res.market_data # EmptyDict THEN res
    ELSE IF YahooQuoteRaises(y)
    THEN [res EXCEPT !.errors = Append(@, [source |-> "Yahoo Finance",
                                           detail |-> "exception"])]
    ELSE IF y.hist # <<>>
    THEN [res EXCEPT !.data_sources = Append(@, "Yahoo Finance"),
                     !.market_data = MarketDataYahoo(y)]
    ELSE res

\* the 52-week range is looked at: "year_high > 0 and year_low > 0" holds
RangeKnown(md) == md.year_high[1] > 0 /\ md.year_low[1] > 0

\* lines 175-199 raise: abs(None), None > 0, price - year_low with a null
\* price, or the division by a 52-week range of width 0
InsightsRaise(md) ==
    \/ md.change_percent = None
    \/ md.volume = None
    \/ md.year_high = None
    \/ md.year_high[1] > 0 /\ md.year_low = None
    \/ RangeKnown(md) /\ (md.current_price = None \/ md.year_high = md.year_low)

\* line 199 compared with a bound: ((price - low) / (high - low)) * 100 >= b
PositionAtLeast(md, b) ==
    LET n == (md.current_price[1] - md.year_low[1]) * 100
        d == md.year_high[1] - md.year_low[1]
    IN  IF d > 0 THEN n >= b * d ELSE n <= b * d

\* ... <= b
PositionAtMost(md, b) ==
    LET n == (md.current_price[1] - md.year_low[1]) * 100
        d == md.year_high[1] - md.year_low[1]
    IN  IF d > 0 THEN n <= b * d ELSE n >= b * d

\* lines 173-218: alerts and notes, the texts shortened to tags
WithInsights(res) ==
    LET md == res.market_data
        move == IF md # EmptyDict /\ (md.change_percent[1] >= 300
                                      \/ md.change_percent[1] <= -300)
                THEN <<"price_movement">> ELSE <<>>
        vol == IF md # EmptyDict /\ md.volume[1] > 0 THEN <<"Current volume">> ELSE <<>>
        level == IF md # EmptyDict /\ RangeKnown(md)
                 THEN (IF PositionAtLeast(md, 90) THEN <<"near 52-week high">>
                       ELSE IF PositionAtMost(md, 10) THEN <<"near 52-week low">>
                       ELSE <<>>)
                 ELSE <<>>
    IN  [res EXCEPT !.alerts = @ \o move \o level,
                    !.educational_notes = @ \o vol \o <<"general notes">>]

\* lines 222-227: the dict returned when anything raised
CollectionCriticalError(sym) ==
    [symbol |-> sym, error |-> "Critical error in data collection", timestamp |-> "now"]

\* fetch_comprehensive_stock_data(sym) when requests.get does r and Yahoo does y
StockDataResult(sym, r, y) ==
    LET tsx == InlineComprehensiveSymbol(sym).yahoo_symbol
        fmp_quote == fetch_fmp_data(r, "quote")
        res == AfterYahooQuote(AfterQuote(NewStockResult(tsx), fmp_quote), y)
    IN  IF HasData(fmp_quote) /\ IndexRaises(fmp_quote.data)
        THEN CollectionCriticalError(sym)
        ELSE IF res.market_data # EmptyDict /\ InsightsRaise(res.market_data)
        THEN CollectionCriticalError(sym)
        ELSE WithInsights(res)

(***************************************************************************)
(* collect_tsx_data (coordinator_agent/sub_agents/data_collection_agent/   *)
(* tools.py:15-140) and calculate_basic_ratios (coordinator_agent/         *)
(* sub_agents/financial_analysis_agent/tools.py:13-132)                    *)
(***************************************************************************)
\* "if response.status_code == 200" and then "if data and len(data) > 0"
BodyUsed(r) == r.status = 200 /\ r.body # InvalidJson /\ PayloadTruthy(r.body)

\* _handle_collection_error (tools.py:212-232)
_handle_collection_error(sym, error_msg) ==
    [symbol |-> sym, error |-> "Data collection failed", detail |-> error_msg]

\* tools.py:42-65 and 76-99: the result built from a price and a volume
CollectedFrom(sym, price, volume, source) ==
    [ symbol        |-> sym,
      market_data   |-> [price |-> Round2(price), volume |-> volume, currency |-> "CAD"],
      data_source   |-> source,
      storage_ready |-> TRUE ]

\* collect_tsx_data(sym) when requests.get does r and Yahoo does y
CollectResult(sym, r, y) ==
    LET tsx == InlineToolsSymbol(sym).yahoo_symbol
    IN  IF r.kind = "exception"
        THEN _handle_collection_error(tsx, "requests.get raised")
        ELSE IF r.status = 200 /\ r.body = InvalidJson
        THEN _handle_collection_error(tsx, "response.json() raised")
        ELSE IF BodyUsed(r)
        THEN IF IndexRaises(r.body)
             THEN _handle_collection_error(tsx, "fmp_data[0] raised")
             ELSE LET quote == r.body.items[1]
                  IN  IF GetOr0(quote, "price") = None \/ GetOr0(quote, "volume") = None
                      THEN _handle_collection_error(tsx, "float(None) or int(None) raised")
                      ELSE CollectedFrom(tsx, GetOr0(quote, "price")[1],
                                         GetOr0(quote, "volume")[1],
                                         "Financial Modeling Prep API")
        ELSE IF y.outcome = "raised"
        THEN _handle_collection_error(tsx, "yfinance raised")
        ELSE IF y.hist # <<>>
        THEN CollectedFrom(tsx, y.hist[1].Close, y.hist[1].Volume, "Yahoo Finance API")
        ELSE _handle_collection_error(tsx, "Both FMP and Yahoo Finance failed")

\* tools.py:41-70 and 81-110: the result built from four ratios
BasicRatiosFrom(sym, pe, roe, cr, de, source) ==
    [ symbol      |-> sym,
      data_source |-> source,
      raw_data    |-> [pe_ratio |-> pe, roe |-> roe, current_ratio |-> cr,
                       debt_to_equity |-> de] ]

\* calculate_basic_ratios(sym) when requests.get does r and Yahoo does y
BasicRatiosResult(sym, r, y) ==
    LET tsx == InlineToolsSymbol(sym).yahoo_symbol
        failed == [error |-> "Analysis failed", source |-> "Financial Analysis Agent"]
    IN  IF r.kind = "exception" THEN failed
        ELSE IF r.status = 200 /\ r.body = InvalidJson THEN failed
        ELSE IF BodyUsed(r)
        THEN IF IndexRaises(r.body) THEN failed
             ELSE LET ratios == r.body.items[1]
                  IN  BasicRatiosFrom(tsx, Get(ratios, "priceEarningsRatio"),
                                      Get(ratios, "returnOnEquity"),
                                      Get(ratios, "currentRatio"),
                                      Get(ratios, "debtEquityRatio"),
                                      "Financial Modeling Prep API")
        ELSE IF y.outcome = "raised" THEN failed
        ELSE IF y.info # EmptyDict
        THEN BasicRatiosFrom(tsx, Get(y.info, "trailingPE"), Get(y.info, "returnOnEquity"),
                             Get(y.info, "currentRatio"), Get(y.info, "debtToEquity"),
                             "Yahoo Finance (Fallback)")
        ELSE [error |-> "Could not fetch ratios",
              source |-> "Both FMP and Yahoo Finance failed"]

\* Yahoo Finance is reached by the tool of tools.py: FMP gave nothing usable
\* and nothing raised before line 68 / line 77
ToolAsksYahoo(r) ==
    r.kind = "response" /\ ~(r.status = 200 /\ r.body = InvalidJson) /\ ~BodyUsed(r)

(***************************************************************************)
(* The state machine of the three data tools: each call is one step, on    *)
(* what requests.get and yfinance do during the call.                      *)
(***************************************************************************)
\* the symbols a client passes: T, t, T.TO, t.to, T.TRT, and T after a blank
ToolSymbols ==
    { <<"T">>, <<"t">>, <<"T">> \o TO, <<"t", ".", "t", "o">>, <<"T">> \o TRT,
      <<" ", "T">> }

\* records of the quote endpoint
Quotes ==
    [ price : {None, <<100000>>}, changesPercentage : {None, <<0>>, <<450>>},
      volume : {<<0>>, <<5000>>}, yearHigh : {<<0>>, <<100000>>, <<120000>>},
      yearLow : {<<80000>>, <<100000>>} ]
    \cup { [symbol |-> None] }

\* what requests.get can do, given the arrays the endpoint can send
HttpAnswers(records) ==
    { HttpRaised, HttpResponse(500, InvalidJson), HttpResponse(401, ErrorObject),
      HttpResponse(200, ErrorObject), HttpResponse(200, InvalidJson),
      HttpResponse(200, JsonList(<<>>)) }
    \cup { HttpResponse(200, JsonList(<<rec>>)) : rec \in records }

\* ticker.info
ToolInfos ==
    { EmptyDict,
      [previousClose |-> <<95000>>, fiftyTwoWeekHigh |-> <<120000>>,
       fiftyTwoWeekLow |-> <<80000>>, trailingPE |-> <<12000>>,
       returnOnEquity |-> <<220>>],
      [previousClose |-> <<0>>, fiftyTwoWeekHigh |-> <<100000>>,
       fiftyTwoWeekLow |-> <<100000>>],
      [previousClose |-> None] }

\* the last row of ticker.history(...)
HistoryRows == { [Close |-> 100004, Volume |-> 5000], [Close |-> 99000, Volume |-> 0] }

\* what yfinance can do: raise, or give an info dict and a history
ToolYahooOutcomes ==
    { [outcome |-> "raised"] }
    \cup { [outcome |-> "answered", info |-> i, hist |-> <<>>] : i \in ToolInfos }
    \cup { [outcome |-> "answered", info |-> i, hist |-> <<row>>] :
               i \in ToolInfos, row \in HistoryRows }

\* a client calls fetch_comprehensive_stock_data(sym)
CallStockData ==
    /\ pc = "idle"
    /\ \E sym \in ToolSymbols, r \in HttpAnswers(Quotes), y \in ToolYahooOutcomes :
         /\ symbol' = sym
         /\ endpoint' = [path |-> "quote",
                         symbol |-> InlineComprehensiveSymbol(sym).fmp_symbol]
         /\ fetch_ret' = r
         /\ yahoo' = IF HasData(fetch_fmp_data(r, "quote"))
                     THEN [outcome |-> "not_consulted"] ELSE y
         /\ result' = StockDataResult(sym, r, y)
    /\ op' = "fetch_comprehensive_stock_data"
    /\ pc' = "tool_returned"
    /\ UNCHANGED <<max_retries, attempt, resps, sleeps, fmp_ratios_ttm, fmp_ratios_annual,
                   prov, analysis, health, sector, primary_analysis, peers, peer_idx,
                   peer_data, peer_log, comparison, report>>

\* a client calls collect_tsx_data(sym)
CallCollect ==
    /\ pc = "idle"
    /\ \E sym \in ToolSymbols, r \in HttpAnswers(Quotes), y \in ToolYahooOutcomes :
         /\ symbol' = sym
         /\ endpoint' = [path |-> "quote", symbol |-> InlineToolsSymbol(sym).fmp_symbol]
         /\ fetch_ret' = r
         /\ yahoo' = IF ToolAsksYahoo(r) THEN y ELSE [outcome |-> "not_consulted"]
         /\ result' = CollectResult(sym, r, y)
    /\ op' = "collect_tsx_data"
    /\ pc' = "tool_returned"
    /\ UNCHANGED <<max_retries, attempt, resps, sleeps, fmp_ratios_ttm, fmp_ratios_annual,
                   prov, analysis, health, sector, primary_analysis, peers, peer_idx,
                   peer_data, peer_log, comparison, report>>

\* a client calls calculate_basic_ratios(sym)
CallBasicRatios ==
    /\ pc = "idle"
    /\ \E sym \in ToolSymbols, r \in HttpAnswers(TTMRecords), y \in ToolYahooOutcomes :
         /\ symbol' = sym
         /\ endpoint' = [path |-> "ratios-ttm", symbol |-> InlineToolsSymbol(sym).fmp_symbol]
         /\ fetch_ret' = r
         /\ yahoo' = IF ToolAsksYahoo(r) THEN y ELSE [outcome |-> "not_consulted"]
         /\ result' = BasicRatiosResult(sym, r, y)
    /\ op' = "calculate_basic_ratios"
    /\ pc' = "tool_returned"
    /\ UNCHANGED <<max_retries, attempt, resps, sleeps, fmp_ratios_ttm, fmp_ratios_annual,
                   prov, analysis, health, sector, primary_analysis, peers, peer_idx,
                   peer_data, peer_log, comparison, report>>

NextTools ==
    \/ CallStockData
    \/ CallCollect
    \/ CallBasicRatios

SpecTools == Init /\ [][NextTools]_vars

ToolReturned == pc = "tool_returned"

\* C22: when FMP answers with a JSON object holding an error message instead
\* of an array, each of the three tools takes it for a provider failure and
\* falls back to Yahoo Finance: Yahoo Finance is consulted.
C22_ErrorObjectFallsBack ==
    (/\ ToolReturned
     /\ fetch_ret.kind = "response" /\ fetch_ret.body = ErrorObject)
    => yahoo.outcome # "not_consulted"

\* C28: the inline normalisation of the three tools agrees with
\* normalize_canadian_symbol: for every input they derive the same Yahoo
\* symbol and the same FMP symbol.
C28_InlineNormalizationAgrees ==
    ToolReturned =>
        /\ endpoint.symbol = normalize_canadian_symbol(symbol).fmp_symbol
        /\ "error" \notin DOMAIN result =>
               result.symbol = normalize_canadian_symbol(symbol).yahoo_symbol

\* a quote was supplied: FMP sent an array with a quote, or Yahoo Finance was
\* asked and gave a history and a previous close
QuoteSupplied ==
    \/ fetch_ret.kind = "response" /\ fetch_ret.status = 200
       /\ fetch_ret.body \in { JsonList(<<q>>) : q \in Quotes }
    \/ yahoo.outcome = "answered" /\ yahoo.hist # <<>>
       /\ Get(yahoo.info, "previousClose") # None

\* C30: whenever FMP or Yahoo Finance supplied a quote, the result of
\* fetch_comprehensive_stock_data carries market data and no top-level error,
\* whatever the quoted values: also when the 52-week high equals the 52-week
\* low and when the change percentage is null.
C30_QuoteGivesMarketData ==
    (ToolReturned /\ op = "fetch_comprehensive_stock_data" /\ QuoteSupplied)
    => /\ "error" \notin DOMAIN result
       /\ result.market_data # EmptyDict

====
